---- MODULE Spec2Model ----
(***************************************************************************)
(* Request Lifecycle Manager of marketconnect/mcp-go                       *)
(* (protocol/request_lifecycle_manager.go).                                *)
(*                                                                         *)
(* Every critical section of the manager (a region between m.mu.Lock() and *)
(* m.mu.Unlock()) is one action; the steps of a goroutine that lie between *)
(* two critical sections are separate actions, so that every interleaving  *)
(* the mutex allows is an interleaving of the model.  The public           *)
(* operations StartRequest, UpdateCallback, CompleteRequest and            *)
(* ResetTimeout consist of argument checks and one critical section and    *)
(* are single actions.  StopAll and the timer handler triggerCallback are  *)
(* sequences of steps.                                                     *)
(***************************************************************************)
EXTENDS Integers, Sequences, FiniteSets, TLC

(***************************************************************************)
(* Bounds of the model.                                                    *)
(***************************************************************************)
NumIds == 2        \* non-empty request ids are 1..NumIds
NumRaceIds == 1    \* the ids registered under Spec and FairSpec
MaxDuration == 3   \* the longest timeout under TimedSpec
MaxTime == 4       \* the last instant of the clock under TimedSpec
MaxCalls == 2      \* calls of an id generator by one followed goroutine
MaxId == 5         \* calls of the id generators in all
MaxStrLen == 2     \* the longest string id that is serialized
MaxInt == 11       \* integer ids that are serialized are -MaxInt..MaxInt
MaxMethodLen == 4  \* the longest method name that is validated

(***************************************************************************)
(* Values.                                                                 *)
(***************************************************************************)
EmptyID == 0       \* the zero value of the id's underlying type
Ids == 1..NumIds
StartIds == Ids \cup {EmptyID}
RaceIds == 1..NumRaceIds

IsEmpty(id) == id = EmptyID

SoftTimeout == "SoftTimeout"
MaximumTimeout == "MaximumTimeout"
TimeoutTypes == {SoftTimeout, MaximumTimeout}

NilCb == "nil"                      \* a nil func value
StartCallbacks == {NilCb, "cb1"}     \* callbacks passed to StartRequest
UpdateCallbacks == {NilCb, "cb2"}    \* callbacks passed to UpdateCallback
Durations == 0..2                    \* timeout arguments of StartRequest
RaceDurations == 0..1                \* the same, under Spec and FairSpec
TimedDurations == 1..MaxDuration     \* the same, under TimedSpec
CallDurations == 1..2                \* the same, under TimedCallSpec
\* The request whose timers TimedSpec, DispatchSpec and LookupSpec follow
\* (the timers and handlers of different requests share no state).
FollowedIds == {1}

NoErr == "nil"
ErrCallbackNil == "ErrCallbackNil"
ErrEmptyRequestID == "ErrEmptyRequestID"
ErrDuplicateRequestID == "ErrDuplicateRequestID"
ErrSoftTimeoutNotPositive == "ErrSoftTimeoutNotPositive"
ErrMaximumTimeoutNotPositive == "ErrMaximumTimeoutNotPositive"
ErrSoftTimeoutExceedsMaximum == "ErrSoftTimeoutExceedsMaximum"
ErrRequestNotFound == "ErrRequestNotFound"

(***************************************************************************)
(* A *time.Timer created by time.AfterFunc: nil, or armed for the instant  *)
(* `at`, or fired (its function has been started in its own goroutine).    *)
(***************************************************************************)
NilTimer == [st |-> "nil", at |-> 0]
\* A timer that is due at once, whatever its duration.
AfterFunc_Immediately(d, t) == [st |-> "armed", at |-> t]

AfterFunc(d, t) == [st |-> "armed", at |-> t + d]

\* Timer.Stop(): TRUE iff the call stops the timer (it had not fired yet).
TimerStop(tm) == tm.st = "armed"

VARIABLES
    requests,      \* m.requests: the ids of the active table
    usedIDs,       \* m.usedIDs
    state,         \* the requestState object created for each id
    ctxDone,       \* m.ctx is cancelled
    wg,            \* counter of m.wg
    handler,       \* the goroutine of each timer function
    stopAll,       \* the thread calling StopAll
    now,           \* the clock
    traced,        \* calls and their returned values are recorded in ret
    ret,           \* the last call of a public operation and what it returned
    started,       \* number of successful StartRequest calls per id
    startedAt,     \* the instant of the successful StartRequest, per id
    invoked,       \* callback invocations begun, per id
    completed,     \* what the CompleteRequest calls that returned did, per id
                   \* (kept in the behaviours that do not record ret)
    stopReturned,  \* a StopAll call has returned
    stoppedIDs,    \* ids returned by StopAll calls
    mu,            \* m.mu: Free, or the goroutine that holds it across steps
    onError,       \* m.onError: installed by WithErrorHandler, or nil
    reported,      \* the recovered callback panics, in the order reported
    idCounter,     \* the package variable idCounter of the id generators
    gen,           \* the goroutines that call NextIntID and NextStringID
    arg,           \* the value a function of the package is applied to
    out            \* what the function returned for arg

vars == <<requests, usedIDs, state, ctxDone, wg, handler, stopAll, now,
          traced, ret,
          started, startedAt, invoked, completed, stopReturned, stoppedIDs,
          mu, onError, reported, idCounter, gen, arg, out>>

history == <<started, startedAt, invoked, completed, stopReturned,
             stoppedIDs>>

\* What only the steps of the dispatching goroutine that are modelled one
\* lock operation at a time change.  Every other action is a whole critical
\* section (m.mu is free before and after it) or takes no lock.
dispatch == <<mu, onError, reported>>

Free == <<>>

\* The ids and messages of package protocol, which no operation of the
\* manager reads or writes.
wire == <<idCounter, gen, arg, out>>

\* The goroutines whose generated ids are followed; any number of other
\* goroutines generate ids beside them (OtherCall).
Threads == {1, 2}

IdleGen == [pc |-> "idle", kind |-> "none", id |-> 0, got |-> <<>>]

None == <<"none">>

\* Nothing has been applied to arg yet.
NoOut == [stage |-> "none"]

\* No id has been generated and no function has been applied.
NoWire ==
    /\ idCounter = 0
    /\ gen = [th \in Threads |-> IdleGen]
    /\ arg = None
    /\ out = NoOut

\* live: for each timeout type, the number of timers of the runtime that
\* time.AfterFunc created for the record and that have neither fired nor
\* been stopped.  softTimer and maximumTimer are the record's pointers.
NoTimers == [t \in TimeoutTypes |-> 0]
BothTimers == [t \in TimeoutTypes |-> 1]

NoState == [onTimeout |-> NilCb, softTimeout |-> 0, maximumTimeout |-> 0,
            softTimer |-> NilTimer, maximumTimer |-> NilTimer,
            lastActivity |-> 0, live |-> NoTimers]

IdleHandler == [pc |-> "idle", onTimeoutCopy |-> NilCb]

NoCall == [op |-> "none", id |-> EmptyID, soft |-> 0, max |-> 0,
           cb |-> NilCb, used |-> FALSE, err |-> NoErr, ids |-> {}]

Return(call) == ret' = IF traced THEN call ELSE NoCall

\* NewRequestLifecycleManager
NewRequestLifecycleManager ==
    /\ requests = {}
    /\ usedIDs = {}
    /\ state = [i \in Ids |-> NoState]
    /\ ctxDone = FALSE
    /\ wg = 0
    /\ handler = [i \in Ids |-> [t \in TimeoutTypes |-> IdleHandler]]
    /\ stopAll = [pc |-> "idle", wait |-> FALSE, ids |-> {}]
    /\ now = 0
    /\ ret = NoCall
    /\ started = [i \in Ids |-> 0]
    /\ startedAt = [i \in Ids |-> 0]
    /\ invoked = [i \in Ids |-> <<>>]
    /\ completed = [i \in Ids |-> "no"]
    /\ stopReturned = FALSE
    /\ stoppedIDs = {}
    /\ mu = Free
    /\ reported = <<>>

(***************************************************************************)
(* requestState.stop                                                       *)
(***************************************************************************)
\* Timer.Stop() on tm takes it off the n live timers iff it returns true.
Stopped(n, tm) == IF TimerStop(tm) THEN n - 1 ELSE n

\* stop that drops the pointers without Timer.Stop().
stop_DropsPointers(s) ==
    [s EXCEPT !.softTimer = NilTimer, !.maximumTimer = NilTimer]

stop(s) ==
    [s EXCEPT !.softTimer = NilTimer, !.maximumTimer = NilTimer,
              !.live = [t \in TimeoutTypes |->
                          Stopped(@[t], IF t = SoftTimeout THEN s.softTimer
                                        ELSE s.maximumTimer)]]

(***************************************************************************)
(* StartRequest                                                            *)
(***************************************************************************)
StartReturns(id, softTimeout, maximumTimeout, onTimeout, err) ==
    Return([op |-> "StartRequest", id |-> id, soft |-> softTimeout,
            max |-> maximumTimeout, cb |-> onTimeout,
            used |-> id \in usedIDs, err |-> err, ids |-> {}])

StartFails(id, softTimeout, maximumTimeout, onTimeout, err) ==
    /\ StartReturns(id, softTimeout, maximumTimeout, onTimeout, err)
    /\ UNCHANGED <<requests, state, ctxDone, wg, handler, stopAll, now, traced>>
    /\ UNCHANGED <<history, dispatch, wire>>

\* StartRequest without the lookup of id in usedIDs.
StartRequest_NoDuplicateCheck(id, softTimeout, maximumTimeout, onTimeout) ==
    /\ onTimeout # NilCb /\ ~IsEmpty(id)
    /\ 0 < softTimeout /\ softTimeout <= maximumTimeout
    /\ usedIDs' = usedIDs \cup {id}
    /\ state' = [state EXCEPT ![id] =
            [onTimeout |-> onTimeout, softTimeout |-> softTimeout,
             maximumTimeout |-> maximumTimeout,
             softTimer |-> AfterFunc(softTimeout, now),
             maximumTimer |-> AfterFunc(maximumTimeout, now),
             lastActivity |-> now, live |-> BothTimers]]
    /\ wg' = wg + 1
    /\ requests' = requests \cup {id}
    /\ handler' = [handler EXCEPT ![id] = [t \in TimeoutTypes |-> IdleHandler]]
    /\ started' = [started EXCEPT ![id] = @ + 1]
    /\ startedAt' = [startedAt EXCEPT ![id] = now]
    /\ StartReturns(id, softTimeout, maximumTimeout, onTimeout, NoErr)
    /\ UNCHANGED <<ctxDone, stopAll, now, traced, invoked, completed,
                   stopReturned, stoppedIDs, dispatch, wire>>

\* StartRequest with the maximum timeout validated before the soft timeout.
StartRequest_MaximumCheckedFirst(id, softTimeout, maximumTimeout, onTimeout) ==
    LET Fails(err) ==
            StartFails(id, softTimeout, maximumTimeout, onTimeout, err)
    IN
    IF onTimeout = NilCb
    THEN Fails(ErrCallbackNil) /\ UNCHANGED usedIDs
    ELSE IF IsEmpty(id)
    THEN Fails(ErrEmptyRequestID) /\ UNCHANGED usedIDs
    ELSE IF id \in usedIDs
    THEN Fails(ErrDuplicateRequestID) /\ UNCHANGED usedIDs
    ELSE /\ usedIDs' = usedIDs \cup {id}
         /\ IF maximumTimeout <= 0
            THEN Fails(ErrMaximumTimeoutNotPositive)
            ELSE IF softTimeout <= 0
            THEN Fails(ErrSoftTimeoutNotPositive)
            ELSE IF softTimeout > maximumTimeout
            THEN Fails(ErrSoftTimeoutExceedsMaximum)
            ELSE /\ state' = [state EXCEPT ![id] =
                        [onTimeout |-> onTimeout,
                         softTimeout |-> softTimeout,
                         maximumTimeout |-> maximumTimeout,
                         softTimer |-> AfterFunc(softTimeout, now),
                         maximumTimer |-> AfterFunc(maximumTimeout, now),
                         lastActivity |-> now, live |-> BothTimers]]
                 /\ wg' = wg + 1
                 /\ requests' = requests \cup {id}
                 /\ handler' = [handler EXCEPT ![id] =
                        [t \in TimeoutTypes |-> IdleHandler]]
                 /\ started' = [started EXCEPT ![id] = @ + 1]
                 /\ startedAt' = [startedAt EXCEPT ![id] = now]
                 /\ StartReturns(id, softTimeout, maximumTimeout, onTimeout,
                                 NoErr)
                 /\ UNCHANGED <<ctxDone, stopAll, now, traced, invoked,
                                completed, stopReturned, stoppedIDs,
                                dispatch, wire>>

\* StartRequest that increments the counter before it validates the
\* timeouts.
StartRequest_CountsEarly(id, softTimeout, maximumTimeout, onTimeout) ==
    LET Fails(err) ==
            StartFails(id, softTimeout, maximumTimeout, onTimeout, err)
        Invalid(err) ==
            /\ StartReturns(id, softTimeout, maximumTimeout, onTimeout, err)
            /\ wg' = wg + 1
            /\ UNCHANGED <<requests, state, ctxDone, handler, stopAll, now,
                           traced>>
            /\ UNCHANGED <<history, dispatch, wire>>
    IN
    IF onTimeout = NilCb
    THEN Fails(ErrCallbackNil) /\ UNCHANGED usedIDs
    ELSE IF IsEmpty(id)
    THEN Fails(ErrEmptyRequestID) /\ UNCHANGED usedIDs
    ELSE IF id \in usedIDs
    THEN Fails(ErrDuplicateRequestID) /\ UNCHANGED usedIDs
    ELSE /\ usedIDs' = usedIDs \cup {id}
         /\ IF softTimeout <= 0
            THEN Invalid(ErrSoftTimeoutNotPositive)
            ELSE IF maximumTimeout <= 0
            THEN Invalid(ErrMaximumTimeoutNotPositive)
            ELSE IF softTimeout > maximumTimeout
            THEN Invalid(ErrSoftTimeoutExceedsMaximum)
            ELSE /\ state' = [state EXCEPT ![id] =
                        [onTimeout |-> onTimeout,
                         softTimeout |-> softTimeout,
                         maximumTimeout |-> maximumTimeout,
                         softTimer |-> AfterFunc(softTimeout, now),
                         maximumTimer |-> AfterFunc(maximumTimeout, now),
                         lastActivity |-> now, live |-> BothTimers]]
                 /\ wg' = wg + 1
                 /\ requests' = requests \cup {id}
                 /\ handler' = [handler EXCEPT ![id] =
                        [t \in TimeoutTypes |-> IdleHandler]]
                 /\ started' = [started EXCEPT ![id] = @ + 1]
                 /\ startedAt' = [startedAt EXCEPT ![id] = now]
                 /\ StartReturns(id, softTimeout, maximumTimeout, onTimeout,
                                 NoErr)
                 /\ UNCHANGED <<ctxDone, stopAll, now, traced, invoked,
                                completed, stopReturned, stoppedIDs,
                                dispatch, wire>>

\* StartRequest that does not record the id in m.usedIDs.
StartRequest_SkipsUsedIDs(id, softTimeout, maximumTimeout, onTimeout) ==
    LET Fails(err) ==
            StartFails(id, softTimeout, maximumTimeout, onTimeout, err)
    IN
    IF onTimeout = NilCb
    THEN Fails(ErrCallbackNil) /\ UNCHANGED usedIDs
    ELSE IF IsEmpty(id)
    THEN Fails(ErrEmptyRequestID) /\ UNCHANGED usedIDs
    ELSE IF id \in usedIDs
    THEN Fails(ErrDuplicateRequestID) /\ UNCHANGED usedIDs
    ELSE /\ UNCHANGED usedIDs
         /\ IF softTimeout <= 0
            THEN Fails(ErrSoftTimeoutNotPositive)
            ELSE IF maximumTimeout <= 0
            THEN Fails(ErrMaximumTimeoutNotPositive)
            ELSE IF softTimeout > maximumTimeout
            THEN Fails(ErrSoftTimeoutExceedsMaximum)
            ELSE /\ state' = [state EXCEPT ![id] =
                        [onTimeout |-> onTimeout,
                         softTimeout |-> softTimeout,
                         maximumTimeout |-> maximumTimeout,
                         softTimer |-> AfterFunc(softTimeout, now),
                         maximumTimer |-> AfterFunc(maximumTimeout, now),
                         lastActivity |-> now, live |-> BothTimers]]
                 /\ wg' = wg + 1
                 /\ requests' = requests \cup {id}
                 /\ handler' = [handler EXCEPT ![id] =
                        [t \in TimeoutTypes |-> IdleHandler]]
                 /\ started' = [started EXCEPT ![id] = @ + 1]
                 /\ startedAt' = [startedAt EXCEPT ![id] = now]
                 /\ StartReturns(id, softTimeout, maximumTimeout, onTimeout,
                                 NoErr)
                 /\ UNCHANGED <<ctxDone, stopAll, now, traced, invoked,
                                completed, stopReturned, stoppedIDs,
                                dispatch, wire>>

StartRequest(id, softTimeout, maximumTimeout, onTimeout) ==
    LET Fails(err) ==
            StartFails(id, softTimeout, maximumTimeout, onTimeout, err)
    IN
    IF onTimeout = NilCb
    THEN Fails(ErrCallbackNil) /\ UNCHANGED usedIDs
    ELSE IF IsEmpty(id)
    THEN Fails(ErrEmptyRequestID) /\ UNCHANGED usedIDs
    ELSE IF id \in usedIDs
    THEN Fails(ErrDuplicateRequestID) /\ UNCHANGED usedIDs
    ELSE /\ usedIDs' = usedIDs \cup {id}
         /\ IF softTimeout <= 0
            THEN Fails(ErrSoftTimeoutNotPositive)
            ELSE IF maximumTimeout <= 0
            THEN Fails(ErrMaximumTimeoutNotPositive)
            ELSE IF softTimeout > maximumTimeout
            THEN Fails(ErrSoftTimeoutExceedsMaximum)
            ELSE /\ state' = [state EXCEPT ![id] =
                        [onTimeout |-> onTimeout,
                         softTimeout |-> softTimeout,
                         maximumTimeout |-> maximumTimeout,
                         softTimer |-> AfterFunc(softTimeout, now),
                         maximumTimer |-> AfterFunc(maximumTimeout, now),
                         lastActivity |-> now, live |-> BothTimers]]
                 /\ wg' = wg + 1
                 /\ requests' = requests \cup {id}
                 /\ handler' = [handler EXCEPT ![id] =
                        [t \in TimeoutTypes |-> IdleHandler]]
                 /\ started' = [started EXCEPT ![id] = @ + 1]
                 /\ startedAt' = [startedAt EXCEPT ![id] = now]
                 /\ StartReturns(id, softTimeout, maximumTimeout, onTimeout,
                                 NoErr)
                 /\ UNCHANGED <<ctxDone, stopAll, now, traced, invoked,
                                completed, stopReturned, stoppedIDs,
                                dispatch, wire>>

(***************************************************************************)
(* UpdateCallback                                                          *)
(***************************************************************************)
UpdateReturns(id, newCallback, err) ==
    Return([NoCall EXCEPT !.op = "UpdateCallback", !.id = id,
                          !.cb = newCallback, !.err = err])

\* UpdateCallback that looks the id up in m.usedIDs.
UpdateCallback_LooksUpUsedIDs(id, newCallback) ==
    /\ UNCHANGED <<requests, usedIDs, ctxDone, wg, handler, stopAll, now,
                   traced>>
    /\ UNCHANGED <<history, dispatch, wire>>
    /\ IF newCallback = NilCb
       THEN UpdateReturns(id, newCallback, ErrCallbackNil) /\ UNCHANGED state
       ELSE IF id \notin usedIDs
       THEN UpdateReturns(id, newCallback, ErrRequestNotFound)
            /\ UNCHANGED state
       ELSE /\ state' = [state EXCEPT ![id].onTimeout = newCallback,
                                      ![id].lastActivity = now]
            /\ UpdateReturns(id, newCallback, NoErr)

\* UpdateCallback that restarts the soft timer as well.
UpdateCallback_RestartsSoftTimer(id, newCallback) ==
    /\ UNCHANGED <<requests, usedIDs, ctxDone, wg, handler, stopAll, now,
                   traced>>
    /\ UNCHANGED <<history, dispatch, wire>>
    /\ IF newCallback = NilCb
       THEN UpdateReturns(id, newCallback, ErrCallbackNil) /\ UNCHANGED state
       ELSE IF id \notin requests
       THEN UpdateReturns(id, newCallback, ErrRequestNotFound)
            /\ UNCHANGED state
       ELSE /\ state' = [state EXCEPT
                    ![id].onTimeout = newCallback,
                    ![id].softTimer = AfterFunc(state[id].softTimeout, now),
                    ![id].live[SoftTimeout] =
                        Stopped(@, state[id].softTimer) + 1,
                    ![id].lastActivity = now]
            /\ UpdateReturns(id, newCallback, NoErr)

UpdateCallback(id, newCallback) ==
    /\ UNCHANGED <<requests, usedIDs, ctxDone, wg, handler, stopAll, now,
                   traced>>
    /\ UNCHANGED <<history, dispatch, wire>>
    /\ IF newCallback = NilCb
       THEN UpdateReturns(id, newCallback, ErrCallbackNil) /\ UNCHANGED state
       ELSE IF id \notin requests
       THEN UpdateReturns(id, newCallback, ErrRequestNotFound)
            /\ UNCHANGED state
       ELSE /\ state' = [state EXCEPT ![id].onTimeout = newCallback,
                                      ![id].lastActivity = now]
            /\ UpdateReturns(id, newCallback, NoErr)

(***************************************************************************)
(* cleanupRequest: found(id) is its result, cleanupRequest(id) its effect. *)
(***************************************************************************)
found(id) == id \in requests

\* cleanupRequest without the delete(m.requests, id).
cleanupRequest_KeepsEntry(id) ==
    IF ~found(id)
    THEN UNCHANGED <<requests, state, wg>>
    ELSE /\ state' = [state EXCEPT ![id] = stop(@)]
         /\ wg' = wg - 1
         /\ UNCHANGED requests

\* cleanupRequest that calls m.wg.Done() whether or not it found the state.
cleanupRequest_AlwaysDone(id) ==
    IF ~found(id)
    THEN wg' = wg - 1 /\ UNCHANGED <<requests, state>>
    ELSE /\ state' = [state EXCEPT ![id] = stop(@)]
         /\ requests' = requests \ {id}
         /\ wg' = wg - 1

cleanupRequest(id) ==
    IF ~found(id)
    THEN UNCHANGED <<requests, state, wg>>
    ELSE /\ state' = [state EXCEPT ![id] = stop(@)]
         /\ requests' = requests \ {id}
         /\ wg' = wg - 1

(***************************************************************************)
(* CompleteRequest                                                         *)
(***************************************************************************)
CompleteRequest(id) ==
    /\ cleanupRequest(id)
    /\ completed' = IF traced THEN completed
                     ELSE [completed EXCEPT ![id] =
                            IF found(id) \/ @ = "removed" THEN "removed"
                            ELSE "noop"]
    /\ Return([NoCall EXCEPT !.op = "CompleteRequest", !.id = id])
    /\ UNCHANGED <<usedIDs, ctxDone, handler, stopAll, now, traced, started,
                   startedAt, invoked, stopReturned, stoppedIDs, dispatch, wire>>

(***************************************************************************)
(* ResetTimeout                                                            *)
(***************************************************************************)
ResetReturns(id, err) ==
    Return([NoCall EXCEPT !.op = "ResetTimeout", !.id = id, !.err = err])

\* ResetTimeout that re-arms the maximum timer as well.
ResetTimeout_MovesMaximumTimer(id) ==
    /\ UNCHANGED <<requests, usedIDs, ctxDone, wg, handler, stopAll, now,
                   traced>>
    /\ UNCHANGED <<history, dispatch, wire>>
    /\ IF id \notin requests
       THEN ResetReturns(id, ErrRequestNotFound) /\ UNCHANGED state
       ELSE IF state[id].softTimer # NilTimer
               /\ ~TimerStop(state[id].softTimer)
       THEN ResetReturns(id, NoErr) /\ UNCHANGED state
       ELSE /\ state' = [state EXCEPT
                    ![id].softTimer = AfterFunc(state[id].softTimeout, now),
                    ![id].maximumTimer =
                        AfterFunc(state[id].maximumTimeout, now),
                    ![id].live = [t \in TimeoutTypes |->
                        IF t = SoftTimeout
                        THEN Stopped(@[t], state[id].softTimer) + 1
                        ELSE @[t] + 1],
                    ![id].lastActivity = now]
            /\ ResetReturns(id, NoErr)

\* ResetTimeout that re-arms the soft timer with the maximum timeout.
ResetTimeout_ArmsMaximumTimeout(id) ==
    /\ UNCHANGED <<requests, usedIDs, ctxDone, wg, handler, stopAll, now,
                   traced>>
    /\ UNCHANGED <<history, dispatch, wire>>
    /\ IF id \notin requests
       THEN ResetReturns(id, ErrRequestNotFound) /\ UNCHANGED state
       ELSE IF state[id].softTimer # NilTimer
               /\ ~TimerStop(state[id].softTimer)
       THEN ResetReturns(id, NoErr) /\ UNCHANGED state
       ELSE /\ state' = [state EXCEPT
                    ![id].softTimer = AfterFunc(state[id].maximumTimeout, now),
                    ![id].live[SoftTimeout] =
                        Stopped(@, state[id].softTimer) + 1,
                    ![id].lastActivity = now]
            /\ ResetReturns(id, NoErr)

\* ResetTimeout that schedules the new soft timer without stopping the
\* one it replaces.
ResetTimeout_NoStop(id) ==
    /\ UNCHANGED <<requests, usedIDs, ctxDone, wg, handler, stopAll, now,
                   traced>>
    /\ UNCHANGED <<history, dispatch, wire>>
    /\ IF id \notin requests
       THEN ResetReturns(id, ErrRequestNotFound) /\ UNCHANGED state
       ELSE /\ state' = [state EXCEPT
                    ![id].softTimer = AfterFunc(state[id].softTimeout, now),
                    ![id].live[SoftTimeout] = @ + 1,
                    ![id].lastActivity = now]
            /\ ResetReturns(id, NoErr)

\* ResetTimeout that reschedules the soft timer when Stop returns false.
ResetTimeout_IgnoresStop(id) ==
    /\ UNCHANGED <<requests, usedIDs, ctxDone, wg, handler, stopAll, now,
                   traced>>
    /\ UNCHANGED <<history, dispatch, wire>>
    /\ IF id \notin requests
       THEN ResetReturns(id, ErrRequestNotFound) /\ UNCHANGED state
       ELSE /\ state' = [state EXCEPT
                    ![id].softTimer = AfterFunc(state[id].softTimeout, now),
                    ![id].live[SoftTimeout] =
                        Stopped(@, state[id].softTimer) + 1,
                    ![id].lastActivity = now]
            /\ ResetReturns(id, NoErr)

ResetTimeout(id) ==
    /\ UNCHANGED <<requests, usedIDs, ctxDone, wg, handler, stopAll, now,
                   traced>>
    /\ UNCHANGED <<history, dispatch, wire>>
    /\ IF id \notin requests
       THEN ResetReturns(id, ErrRequestNotFound) /\ UNCHANGED state
       ELSE IF state[id].softTimer # NilTimer
               /\ ~TimerStop(state[id].softTimer)
       THEN ResetReturns(id, NoErr) /\ UNCHANGED state
       ELSE /\ state' = [state EXCEPT
                    ![id].softTimer = AfterFunc(state[id].softTimeout, now),
                    ![id].live[SoftTimeout] =
                        Stopped(@, state[id].softTimer) + 1,
                    ![id].lastActivity = now]
            /\ ResetReturns(id, NoErr)

(***************************************************************************)
(* Done, Len, ActiveIDs: what an observer reads.  Except under ParentSpec   *)
(* the parent context of the manager is never cancelled, so m.ctx is done  *)
(* iff m.cancel() ran.                                                     *)
(***************************************************************************)
Done == ctxDone

ManagerLen == Cardinality(requests)

ActiveIDs == requests

\* The slice ActiveIDs builds: it ranges over the keys of m.requests, in
\* an order the runtime chooses, and appends each key it visits.
RECURSIVE RangeAppend(_, _)
RangeAppend(ids, keys) ==
    IF keys = {} THEN ids
    ELSE LET id == CHOOSE k \in keys : TRUE
         IN  RangeAppend(Append(ids, id), keys \ {id})

ActiveIDsSlice == RangeAppend(<<>>, requests)

(***************************************************************************)
(* StopAll                                                                 *)
(***************************************************************************)
\* StopAll that starts its sweep without m.cancel().
StopAllCancel_NoCancel(wait) ==
    /\ stopAll.pc = "idle"
    /\ stopAll' = [pc |-> "sweep", wait |-> wait, ids |-> {}]
    /\ UNCHANGED <<requests, usedIDs, state, ctxDone, wg, handler, now,
                   traced, ret>>
    /\ UNCHANGED <<history, dispatch, wire>>

\* line 263: m.cancel()
StopAllCancel(wait) ==
    /\ stopAll.pc = "idle"
    /\ ctxDone' = TRUE
    /\ stopAll' = [pc |-> "sweep", wait |-> wait, ids |-> {}]
    /\ UNCHANGED <<requests, usedIDs, state, wg, handler, now, traced, ret>>
    /\ UNCHANGED <<history, dispatch, wire>>

\* The sweep without m.requests = make(map...): the table is not cleared.
StopAllSweep_KeepsTable ==
    /\ stopAll.pc = "sweep"
    /\ state' = [i \in Ids |-> IF i \in requests THEN stop(state[i])
                               ELSE state[i]]
    /\ stopAll' = [stopAll EXCEPT !.pc = "wait", !.ids = requests]
    /\ UNCHANGED <<requests, usedIDs, ctxDone, wg, handler, now, traced, ret>>
    /\ UNCHANGED <<history, dispatch, wire>>

\* The sweep that also forgets the ids used in the session.
StopAllSweep_ClearsUsedIDs ==
    /\ stopAll.pc = "sweep"
    /\ state' = [i \in Ids |-> IF i \in requests THEN stop(state[i])
                               ELSE state[i]]
    /\ stopAll' = [stopAll EXCEPT !.pc = "wait", !.ids = requests]
    /\ requests' = {}
    /\ usedIDs' = {}
    /\ UNCHANGED <<ctxDone, wg, handler, now, traced, ret>>
    /\ UNCHANGED <<history, dispatch, wire>>

\* The sweep that collects no ids.
StopAllSweep_ReturnsNothing ==
    /\ stopAll.pc = "sweep"
    /\ state' = [i \in Ids |-> IF i \in requests THEN stop(state[i])
                               ELSE state[i]]
    /\ stopAll' = [stopAll EXCEPT !.pc = "wait", !.ids = {}]
    /\ requests' = {}
    /\ UNCHANGED <<usedIDs, ctxDone, wg, handler, now, traced, ret>>
    /\ UNCHANGED <<history, dispatch, wire>>

\* lines 265-272: the sweep of the active table under the lock
StopAllSweep ==
    /\ stopAll.pc = "sweep"
    /\ state' = [i \in Ids |-> IF i \in requests THEN stop(state[i])
                               ELSE state[i]]
    /\ stopAll' = [stopAll EXCEPT !.pc = "wait", !.ids = requests]
    /\ requests' = {}
    /\ UNCHANGED <<usedIDs, ctxDone, wg, handler, now, traced, ret>>
    /\ UNCHANGED <<history, dispatch, wire>>

\* lines 274-278: m.wg.Wait() when wait is set, then return ids
StopAllReturn ==
    /\ stopAll.pc = "wait"
    /\ stopAll.wait => wg = 0
    /\ stopAll' = [pc |-> "idle", wait |-> FALSE, ids |-> {}]
    /\ stopReturned' = TRUE
    /\ stoppedIDs' = stoppedIDs \cup stopAll.ids
    /\ Return([NoCall EXCEPT !.op = "StopAll", !.ids = stopAll.ids])
    /\ UNCHANGED <<requests, usedIDs, state, ctxDone, wg, handler, now,
                   traced, started, startedAt, invoked, completed, dispatch, wire>>

(***************************************************************************)
(* Timers and triggerCallback                                              *)
(***************************************************************************)
TimerOf(i, t) ==
    IF t = SoftTimeout THEN state[i].softTimer ELSE state[i].maximumTimer

\* The runtime starts the function of an armed timer in its own goroutine.
TimerFire(i, t) ==
    /\ TimerOf(i, t).st = "armed"
    /\ state' = IF t = SoftTimeout
                THEN [state EXCEPT ![i].softTimer.st = "fired",
                                   ![i].live[t] = @ - 1]
                ELSE [state EXCEPT ![i].maximumTimer.st = "fired",
                                   ![i].live[t] = @ - 1]
    /\ handler' = [handler EXCEPT ![i][t].pc = "check"]
    /\ UNCHANGED <<requests, usedIDs, ctxDone, wg, stopAll, now, traced, ret>>
    /\ UNCHANGED <<history, dispatch, wire>>

\* The handler that takes m.ctx for cancelled whatever its state.
TriggerCheck_AlwaysCancelled(i, t) ==
    /\ handler[i][t].pc = "check"
    /\ handler' = [handler EXCEPT ![i][t].pc = "done"]
    /\ UNCHANGED <<requests, usedIDs, state, ctxDone, wg, stopAll, now,
                   traced, ret>>
    /\ UNCHANGED <<history, dispatch, wire>>

\* triggerCallback without the select on m.ctx.Done().
TriggerCheck_IgnoresCancel(i, t) ==
    /\ handler[i][t].pc = "check"
    /\ handler' = [handler EXCEPT ![i][t].pc = "copy"]
    /\ UNCHANGED <<requests, usedIDs, state, ctxDone, wg, stopAll, now,
                   traced, ret>>
    /\ UNCHANGED <<history, dispatch, wire>>

\* lines 284-288: select on m.ctx.Done()
TriggerCheck(i, t) ==
    /\ handler[i][t].pc = "check"
    /\ handler' = [handler EXCEPT ![i][t].pc =
                        IF ctxDone THEN "done" ELSE "copy"]
    /\ UNCHANGED <<requests, usedIDs, state, ctxDone, wg, stopAll, now,
                   traced, ret>>
    /\ UNCHANGED <<history, dispatch, wire>>

\* lines 290-292: onTimeoutCopy := state.onTimeout under the lock
TriggerCopy(i, t) ==
    /\ handler[i][t].pc = "copy"
    /\ handler' = [handler EXCEPT ![i][t] =
            [pc |-> "cleanup", onTimeoutCopy |-> state[i].onTimeout]]
    /\ UNCHANGED <<requests, usedIDs, state, ctxDone, wg, stopAll, now,
                   traced, ret>>
    /\ UNCHANGED <<history, dispatch, wire>>

\* line 294: if m.cleanupRequest(state.id)
TriggerCleanup(i, t) ==
    /\ handler[i][t].pc = "cleanup"
    /\ cleanupRequest(i)
    /\ handler' = [handler EXCEPT ![i][t] =
            IF found(i) THEN [@ EXCEPT !.pc = "invoke"]
            ELSE [pc |-> "done", onTimeoutCopy |-> NilCb]]
    /\ UNCHANGED <<usedIDs, ctxDone, stopAll, now, traced, ret>>
    /\ UNCHANGED <<history, dispatch, wire>>

\* line 306: onTimeoutCopy(state.id, t) is entered
TriggerInvoke(i, t) ==
    /\ handler[i][t].pc = "invoke"
    /\ handler' = [handler EXCEPT ![i][t] =
            [pc |-> "running", onTimeoutCopy |-> NilCb]]
    /\ invoked' = [invoked EXCEPT ![i] =
            Append(@, [cb |-> handler[i][t].onTimeoutCopy, t |-> t,
                       at |-> now])]
    /\ UNCHANGED <<requests, usedIDs, state, ctxDone, wg, stopAll, now,
                   traced, ret>>
    /\ UNCHANGED <<started, startedAt, completed, stopReturned, stoppedIDs,
                   dispatch, wire>>

\* lines 295-307: the callback returns, or panics and the panic is recovered
CallbackReturn(i, t) ==
    /\ handler[i][t].pc = "running"
    /\ handler' = [handler EXCEPT ![i][t].pc = "done"]
    /\ UNCHANGED <<requests, usedIDs, state, ctxDone, wg, stopAll, now,
                   traced, ret>>
    /\ UNCHANGED <<history, dispatch, wire>>

triggerCallback(i, t) ==
    \/ TriggerCheck(i, t)
    \/ TriggerCopy(i, t)
    \/ TriggerCleanup(i, t)
    \/ TriggerInvoke(i, t)

(***************************************************************************)
(* Spec: the manager under concurrent callers, the timer goroutines and a  *)
(* thread that calls StopAll.  Spec abstracts from the clock: durations    *)
(* are arbitrary and a goroutine may be delayed for any time, so an armed  *)
(* timer may fire at any later step.  Calls with a nil callback or the     *)
(* empty id return before they touch the manager and are left to           *)
(* CallSpec.                                                               *)
(***************************************************************************)
Callers ==
    \/ \E id \in RaceIds, s \in RaceDurations, m \in RaceDurations,
          cb \in StartCallbacks \ {NilCb} : StartRequest(id, s, m, cb)
    \/ \E id \in RaceIds, cb \in UpdateCallbacks \ {NilCb} :
          UpdateCallback(id, cb)
    \/ \E id \in RaceIds : CompleteRequest(id)
    \/ \E id \in RaceIds : ResetTimeout(id)

StopAll ==
    \/ \E wait \in BOOLEAN : StopAllCancel(wait)
    \/ StopAllSweep
    \/ StopAllReturn

Timers ==
    \E i \in RaceIds, t \in TimeoutTypes :
        \/ TimerFire(i, t)
        \/ triggerCallback(i, t)
        \/ CallbackReturn(i, t)

Next == Callers \/ StopAll \/ Timers

Init == NewRequestLifecycleManager /\ traced = FALSE /\ onError = NilCb /\ NoWire

Spec == Init /\ [][Next]_vars

(***************************************************************************)
(* CallSpec: the public operations called with every argument of the       *)
(* bounded sets, each call and its returned value recorded in ret.  No     *)
(* timer fires and StopAll is not called.                                  *)
(***************************************************************************)
Calls ==
    \/ \E id \in StartIds, s \in Durations, m \in Durations,
          cb \in StartCallbacks : StartRequest(id, s, m, cb)
    \/ \E id \in StartIds, cb \in UpdateCallbacks : UpdateCallback(id, cb)
    \/ \E id \in StartIds : CompleteRequest(id)
    \/ \E id \in StartIds : ResetTimeout(id)

CallNext == Calls

CallInit == NewRequestLifecycleManager /\ traced = TRUE /\ onError = NilCb /\ NoWire

CallSpec == CallInit /\ [][CallNext]_vars

(***************************************************************************)
(* FairSpec: Spec with the scheduling the Go runtime guarantees: a timer   *)
(* function that is due is started, a runnable goroutine (a handler, the   *)
(* thread inside StopAll) takes its next step, and every callback          *)
(* returns.  The callers are not obliged to call anything.                 *)
(***************************************************************************)
Fairness ==
    /\ WF_vars(StopAll)
    /\ \A i \in RaceIds, t \in TimeoutTypes :
          /\ WF_vars(TimerFire(i, t))
          /\ WF_vars(triggerCallback(i, t))
          /\ WF_vars(CallbackReturn(i, t))

FairSpec == Spec /\ Fairness

(***************************************************************************)
(* DispatchSpec: the dispatching goroutine one lock operation at a time,   *)
(* with callbacks that panic and callbacks that call back into the         *)
(* manager.  m.mu.Lock() is a step that needs the mutex free; a public     *)
(* operation, which is one critical section, is a step that needs it free. *)
(***************************************************************************)
PanicValue == "boom"

\* A message that lacks the recovered value.
Errorf_DropsValue(r) == <<"callback panic: ">>

\* line 297: fmt.Errorf("callback panic: %v", r)
Errorf(r) == <<"callback panic: ", r>>

Locked == {"copyLocked", "cleanupLocked"}

\* triggerCallback that does not wait for the mutex.
triggerLock_NoWait(i, t) ==
    /\ handler[i][t].pc = "copy"
    /\ mu' = <<i, t>>
    /\ handler' = [handler EXCEPT ![i][t].pc = "copyLocked"]
    /\ UNCHANGED <<requests, usedIDs, state, ctxDone, wg, stopAll, now,
                   traced, ret, history, onError, reported, wire>>

\* line 290: m.mu.Lock()
triggerLock(i, t) ==
    /\ handler[i][t].pc = "copy"
    /\ mu = Free
    /\ mu' = <<i, t>>
    /\ handler' = [handler EXCEPT ![i][t].pc = "copyLocked"]
    /\ UNCHANGED <<requests, usedIDs, state, ctxDone, wg, stopAll, now,
                   traced, ret, history, onError, reported, wire>>

\* lines 291-292: onTimeoutCopy := state.onTimeout; m.mu.Unlock()
triggerCopyUnlock(i, t) ==
    /\ handler[i][t].pc = "copyLocked"
    /\ handler' = [handler EXCEPT ![i][t] =
            [pc |-> "cleanup", onTimeoutCopy |-> state[i].onTimeout]]
    /\ mu' = Free
    /\ UNCHANGED <<requests, usedIDs, state, ctxDone, wg, stopAll, now,
                   traced, ret, history, onError, reported, wire>>

\* line 313: m.mu.Lock() of cleanupRequest, called at line 294
cleanupLock(i, t) ==
    /\ handler[i][t].pc = "cleanup"
    /\ mu = Free
    /\ mu' = <<i, t>>
    /\ handler' = [handler EXCEPT ![i][t].pc = "cleanupLocked"]
    /\ UNCHANGED <<requests, usedIDs, state, ctxDone, wg, stopAll, now,
                   traced, ret, history, onError, reported, wire>>

\* cleanupRequest that returns with the mutex still locked.
cleanupUnlock_KeepsLock(i, t) ==
    /\ handler[i][t].pc = "cleanupLocked"
    /\ cleanupRequest(i)
    /\ handler' = [handler EXCEPT ![i][t] =
            IF found(i) THEN [@ EXCEPT !.pc = "invoke"]
            ELSE [pc |-> "done", onTimeoutCopy |-> NilCb]]
    /\ UNCHANGED <<usedIDs, ctxDone, stopAll, now, traced, ret, history,
                   mu, onError, reported, wire>>

\* lines 314-326: the body of cleanupRequest and its deferred m.mu.Unlock()
cleanupUnlock(i, t) ==
    /\ handler[i][t].pc = "cleanupLocked"
    /\ cleanupRequest(i)
    /\ handler' = [handler EXCEPT ![i][t] =
            IF found(i) THEN [@ EXCEPT !.pc = "invoke"]
            ELSE [pc |-> "done", onTimeoutCopy |-> NilCb]]
    /\ mu' = Free
    /\ UNCHANGED <<usedIDs, ctxDone, stopAll, now, traced, ret, history,
                   onError, reported, wire>>

\* line 306: the callback panics
CallbackPanic(i, t) ==
    /\ handler[i][t].pc = "running"
    /\ handler' = [handler EXCEPT ![i][t].pc = "panicked"]
    /\ UNCHANGED <<requests, usedIDs, state, ctxDone, wg, stopAll, now,
                   traced, ret, history, dispatch, wire>>

\* lines 295-304: the deferred function recovers the panic and reports it
\* to m.onError, or prints it when no error handler is installed; then
\* triggerCallback returns.
Recover(i, t) ==
    /\ handler[i][t].pc = "panicked"
    /\ handler' = [handler EXCEPT ![i][t].pc = "recovered"]
    /\ reported' = Append(reported,
            IF onError # NilCb
            THEN [to |-> "onError", id |-> i, msg |-> Errorf(PanicValue)]
            ELSE [to |-> "stdout", id |-> i,
                  msg |-> <<"Request ", ToString(i),
                            " callback panicked: ", PanicValue>>])
    /\ UNCHANGED <<requests, usedIDs, state, ctxDone, wg, stopAll, now,
                   traced, ret, history, mu, onError, wire>>

\* The callback of (i, t) calls a public operation of the manager.
Reentrant(i, t) ==
    /\ handler[i][t].pc = "running"
    /\ \/ /\ mu = Free
          /\ \/ \E id \in Ids \ {i}, cb \in StartCallbacks \ {NilCb} :
                    StartRequest(id, 1, 1, cb)
             \/ \E id \in Ids : CompleteRequest(id)
             \/ \E id \in Ids, cb \in UpdateCallbacks \ {NilCb} :
                    UpdateCallback(id, cb)
             \/ \E id \in Ids : ResetTimeout(id)
             \/ StopAllSweep
       \/ StopAllCancel(FALSE)
       \/ StopAllReturn

DispatchCallers ==
    /\ mu = Free
    /\ \E id \in FollowedIds, cb \in StartCallbacks \ {NilCb} :
          StartRequest(id, 1, 1, cb)

DispatchTimers ==
    \E i \in FollowedIds, t \in TimeoutTypes :
        \/ TimerFire(i, t)
        \/ TriggerCheck(i, t)
        \/ triggerLock(i, t)
        \/ triggerCopyUnlock(i, t)
        \/ cleanupLock(i, t)
        \/ cleanupUnlock(i, t)
        \/ TriggerInvoke(i, t)
        \/ Reentrant(i, t)
        \/ CallbackReturn(i, t)
        \/ CallbackPanic(i, t)
        \/ Recover(i, t)

DispatchNext == DispatchCallers \/ DispatchTimers

DispatchInit ==
    /\ NewRequestLifecycleManager
    /\ traced = FALSE
    /\ onError \in {NilCb, "onError"}
    /\ NoWire

DispatchSpec == DispatchInit /\ [][DispatchNext]_vars

(***************************************************************************)
(* LockSpec: a thread that calls the public operations one lock operation  *)
(* at a time, beside the dispatching goroutines of DispatchSpec.  A call   *)
(* that takes m.mu is four steps: the call begins (ret.op = "waiting"),    *)
(* m.mu.Lock() returns (mu = Caller), the body runs to its return          *)
(* statement (ret records the call), and the deferred m.mu.Unlock() runs.  *)
(* StopAll takes the lock for its sweep only and waits after it.  The      *)
(* scheduling assumed is that a goroutine which holds or can take the lock *)
(* takes its next step; nothing is assumed of timers and callbacks: a      *)
(* callback may run for ever.                                              *)
(***************************************************************************)
Caller == <<"caller">>

Waiting == [NoCall EXCEPT !.op = "waiting"]

InCall == ret.op = "waiting" \/ mu = Caller \/ stopAll.pc # "idle"

\* A public operation that takes the lock is entered.
callBegin ==
    /\ ~InCall
    /\ ret' = Waiting
    /\ UNCHANGED <<requests, usedIDs, state, ctxDone, wg, handler, stopAll,
                   now, traced, history, dispatch, wire>>

\* lines 123, 151, 203, 225, 249, 313: m.mu.Lock()
callLock ==
    /\ ret.op = "waiting"
    /\ mu = Free
    /\ mu' = Caller
    /\ UNCHANGED <<requests, usedIDs, state, ctxDone, wg, handler, stopAll,
                   now, traced, ret, history, onError, reported, wire>>

\* lines 122-126
LenCall ==
    /\ Return([op |-> "Len", n |-> ManagerLen] @@ NoCall)
    /\ UNCHANGED <<requests, usedIDs, state, ctxDone, wg, handler, stopAll,
                   now, traced, history, dispatch, wire>>

\* lines 248-257
ActiveIDsCall ==
    /\ Return([NoCall EXCEPT !.op = "ActiveIDs", !.ids = ActiveIDs])
    /\ UNCHANGED <<requests, usedIDs, state, ctxDone, wg, handler, stopAll,
                   now, traced, history, dispatch, wire>>

\* lines 117-119: Done() takes no lock
DoneCall ==
    /\ ~InCall
    /\ Return([op |-> "Done", closed |-> Done] @@ NoCall)
    /\ UNCHANGED <<requests, usedIDs, state, ctxDone, wg, handler, stopAll,
                   now, traced, history, dispatch, wire>>

\* The body of an operation, from the statement after m.mu.Lock() to its
\* return statement, whichever that is.
callBody ==
    /\ ret.op = "waiting"
    /\ mu = Caller
    /\ \/ \E id \in FollowedIds, s \in RaceDurations, m \in RaceDurations,
             cb \in StartCallbacks \ {NilCb} : StartRequest(id, s, m, cb)
       \/ \E id \in FollowedIds, cb \in UpdateCallbacks \ {NilCb} :
             UpdateCallback(id, cb)
       \/ \E id \in FollowedIds : CompleteRequest(id)
       \/ \E id \in FollowedIds : ResetTimeout(id)
       \/ LenCall
       \/ ActiveIDsCall

\* An unlock that is skipped when the operation returns an error.
callUnlock_OnlyOnSuccess ==
    /\ ret.op # "waiting"
    /\ mu = Caller
    /\ stopAll.pc = "idle"
    /\ ret.err = NoErr
    /\ mu' = Free
    /\ UNCHANGED <<requests, usedIDs, state, ctxDone, wg, handler, stopAll,
                   now, traced, ret, history, onError, reported, wire>>

\* lines 124, 152, 204, 226, 250, 314: the deferred m.mu.Unlock(), which
\* runs at every return of the operation
callUnlock ==
    /\ ret.op # "waiting"
    /\ mu = Caller
    /\ stopAll.pc = "idle"
    /\ mu' = Free
    /\ UNCHANGED <<requests, usedIDs, state, ctxDone, wg, handler, stopAll,
                   now, traced, ret, history, onError, reported, wire>>

\* lines 144-150 and 199-201: the returns that precede m.mu.Lock()
callNoLock ==
    /\ ~InCall
    /\ \/ \E id \in FollowedIds \cup {EmptyID}, cb \in StartCallbacks :
             /\ cb = NilCb \/ IsEmpty(id)
             /\ StartRequest(id, 1, 1, cb)
       \/ \E id \in FollowedIds : UpdateCallback(id, NilCb)

\* line 263: StopAll is entered and cancels the context
stopBegin ==
    /\ ~InCall
    /\ \E wait \in BOOLEAN : StopAllCancel(wait)

\* line 265: m.mu.Lock()
stopLock ==
    /\ stopAll.pc = "sweep"
    /\ mu = Free
    /\ mu' = Caller
    /\ UNCHANGED <<requests, usedIDs, state, ctxDone, wg, handler, stopAll,
                   now, traced, ret, history, onError, reported, wire>>

\* lines 266-271
stopSweep == mu = Caller /\ StopAllSweep

\* line 272: m.mu.Unlock()
stopUnlock ==
    /\ stopAll.pc = "wait"
    /\ mu = Caller
    /\ mu' = Free
    /\ UNCHANGED <<requests, usedIDs, state, ctxDone, wg, handler, stopAll,
                   now, traced, ret, history, onError, reported, wire>>

\* lines 274-278
stopReturn == mu # Caller /\ StopAllReturn

LockCaller ==
    \/ callBegin
    \/ callLock
    \/ callBody
    \/ callUnlock
    \/ callNoLock
    \/ DoneCall
    \/ stopBegin
    \/ stopLock
    \/ stopSweep
    \/ stopUnlock
    \/ stopReturn

\* The steps a dispatching goroutine takes while it holds m.mu.
LockedSteps(i, t) == triggerCopyUnlock(i, t) \/ cleanupUnlock(i, t)

LockTimers ==
    \E i \in FollowedIds, t \in TimeoutTypes :
        \/ TimerFire(i, t)
        \/ TriggerCheck(i, t)
        \/ triggerLock(i, t)
        \/ LockedSteps(i, t)
        \/ cleanupLock(i, t)
        \/ TriggerInvoke(i, t)
        \/ CallbackReturn(i, t)

LockNext == LockCaller \/ LockTimers

\* The steps of the calling thread inside an operation.
CallSteps ==
    \/ callLock
    \/ callBody
    \/ callUnlock
    \/ stopLock
    \/ stopSweep
    \/ stopUnlock
    \/ stopReturn

LockFairness ==
    /\ WF_vars(CallSteps)
    /\ \A i \in FollowedIds, t \in TimeoutTypes : WF_vars(LockedSteps(i, t))

LockSpec == CallInit /\ [][LockNext]_vars /\ LockFairness

(***************************************************************************)
(* ArmSpec: StartRequest one statement group at a time, beside the         *)
(* dispatching goroutines of DispatchSpec.  After m.mu.Lock() a successful *)
(* StartRequest first creates the state and schedules both timers (lines   *)
(* 154-187) and then inserts the state into m.requests (line 189); the     *)
(* deferred unlock follows.  A timer that is armed may fire at once.       *)
(***************************************************************************)
Arming(id, softTimeout, maximumTimeout, onTimeout) ==
    [NoCall EXCEPT !.op = "arming", !.id = id, !.soft = softTimeout,
                   !.max = maximumTimeout, !.cb = onTimeout]

\* lines 154-169: a StartRequest that returns an error after the lock
startRejected ==
    /\ ret.op = "waiting"
    /\ mu = Caller
    /\ \E id \in FollowedIds, s \in RaceDurations, m \in RaceDurations,
          cb \in StartCallbacks \ {NilCb} :
            /\ id \in usedIDs \/ s <= 0 \/ m <= 0 \/ s > m
            /\ StartRequest(id, s, m, cb)

\* lines 154-187: the checks pass, the state is created, the counter is
\* incremented and both timers are scheduled
startArm ==
    /\ ret.op = "waiting"
    /\ mu = Caller
    /\ \E id \in FollowedIds, s \in RaceDurations, m \in RaceDurations,
          cb \in StartCallbacks \ {NilCb} :
            /\ id \notin usedIDs /\ 0 < s /\ 0 < m /\ s <= m
            /\ usedIDs' = usedIDs \cup {id}
            /\ state' = [state EXCEPT ![id] =
                    [onTimeout |-> cb, softTimeout |-> s,
                     maximumTimeout |-> m,
                     softTimer |-> AfterFunc(s, now),
                     maximumTimer |-> AfterFunc(m, now),
                     lastActivity |-> now, live |-> BothTimers]]
            /\ wg' = wg + 1
            /\ handler' = [handler EXCEPT ![id] =
                    [t \in TimeoutTypes |-> IdleHandler]]
            /\ ret' = Arming(id, s, m, cb)
    /\ UNCHANGED <<requests, ctxDone, stopAll, now, traced, history,
                   dispatch, wire>>

\* lines 189-190: m.requests[id] = state; return nil
startInsert ==
    /\ ret.op = "arming"
    /\ mu = Caller
    /\ requests' = requests \cup {ret.id}
    /\ started' = [started EXCEPT ![ret.id] = @ + 1]
    /\ startedAt' = [startedAt EXCEPT ![ret.id] = now]
    /\ ret' = [ret EXCEPT !.op = "inserted"]
    /\ UNCHANGED <<usedIDs, state, ctxDone, wg, handler, stopAll, now,
                   traced, invoked, completed, stopReturned, stoppedIDs,
                   dispatch, wire>>

\* line 152: the deferred m.mu.Unlock() of StartRequest
startUnlock ==
    /\ ret.op \in {"inserted", "StartRequest"}
    /\ mu = Caller
    /\ mu' = Free
    /\ ret' = [ret EXCEPT !.op = "StartRequest"]
    /\ UNCHANGED <<requests, usedIDs, state, ctxDone, wg, handler, stopAll,
                   now, traced, history, onError, reported, wire>>

ArmCaller ==
    \/ callBegin
    \/ callLock
    \/ startRejected
    \/ startArm
    \/ startInsert
    \/ startUnlock

ArmNext == ArmCaller \/ LockTimers

ArmSpec == CallInit /\ [][ArmNext]_vars

(***************************************************************************)
(* LookupSpec: Spec for one request, with the calls and their returned     *)
(* values recorded in ret, and UpdateCallback and ResetTimeout called with *)
(* every id (the empty id and ids never registered included) and with a    *)
(* nil callback.                                                           *)
(***************************************************************************)
LookupCalls ==
    \/ \E id \in FollowedIds, s \in RaceDurations, m \in RaceDurations,
          cb \in StartCallbacks \ {NilCb} : StartRequest(id, s, m, cb)
    \/ \E id \in StartIds, cb \in UpdateCallbacks : UpdateCallback(id, cb)
    \/ \E id \in FollowedIds : CompleteRequest(id)
    \/ \E id \in StartIds : ResetTimeout(id)

LookupTimers ==
    \E i \in FollowedIds, t \in TimeoutTypes :
        \/ TimerFire(i, t)
        \/ triggerCallback(i, t)
        \/ CallbackReturn(i, t)

LookupNext == LookupCalls \/ StopAll \/ LookupTimers

LookupSpec == CallInit /\ [][LookupNext]_vars

(***************************************************************************)
(* ParentSpec: LookupSpec for a manager constructed on a parent context    *)
(* that its owner may cancel.  m.ctx is context.WithCancel(parent) (line   *)
(* 100): it is done as soon as the parent is.                              *)
(***************************************************************************)
ParentCancel ==
    /\ ~ctxDone
    /\ ctxDone' = TRUE
    /\ UNCHANGED <<requests, usedIDs, state, wg, handler, stopAll, now,
                   traced, ret>>
    /\ UNCHANGED <<history, dispatch, wire>>

ParentNext == LookupNext \/ ParentCancel

ParentSpec == CallInit /\ [][ParentNext]_vars

\* The scheduling under LookupSpec: a StopAll that has begun goes on, a
\* timer that is armed expires, a goroutine that has been started runs.
\* No caller is obliged to call anything.
LookupFairness ==
    /\ WF_vars(StopAllSweep)
    /\ WF_vars(StopAllReturn)
    /\ \A i \in FollowedIds, t \in TimeoutTypes :
          /\ WF_vars(TimerFire(i, t))
          /\ WF_vars(triggerCallback(i, t))
          /\ WF_vars(CallbackReturn(i, t))

FairLookupSpec == LookupSpec /\ LookupFairness

(***************************************************************************)
(* LiveSpec: a manager on which CompleteRequest and StopAll are never      *)
(* called, with the scheduling of FairSpec for the timer functions, the    *)
(* handlers and the callbacks.                                             *)
(***************************************************************************)
LiveCallers ==
    \/ \E id \in RaceIds, s \in RaceDurations, m \in RaceDurations,
          cb \in StartCallbacks \ {NilCb} : StartRequest(id, s, m, cb)
    \/ \E id \in RaceIds, cb \in UpdateCallbacks \ {NilCb} :
          UpdateCallback(id, cb)
    \/ \E id \in RaceIds : ResetTimeout(id)

LiveNext == LiveCallers \/ Timers

LiveFairness ==
    \A i \in RaceIds, t \in TimeoutTypes :
        /\ WF_vars(TimerFire(i, t))
        /\ WF_vars(triggerCallback(i, t))
        /\ WF_vars(CallbackReturn(i, t))

LiveSpec == Init /\ [][LiveNext]_vars /\ LiveFairness

(***************************************************************************)
(* TimedSpec: the manager with the clock.  time.AfterFunc(d, f) starts f   *)
(* at the instant now + d; the clock is ideal: it does not advance while a *)
(* timer is due or while a handler is between its start and the entry of   *)
(* the callback (no scheduling latency).  Callers and StopAll act at any   *)
(* instant, and a callback may run for any time.  UpdateCallback, which    *)
(* touches no timer, is left out.                                          *)
(***************************************************************************)
Due(i, t) == TimerOf(i, t).st = "armed" /\ TimerOf(i, t).at <= now

Dispatching(i, t) == handler[i][t].pc \in {"check", "copy", "cleanup", "invoke"}

TimedTimerFire(i, t) == Due(i, t) /\ TimerFire(i, t)

Tick ==
    /\ now < MaxTime
    /\ \A i \in Ids, t \in TimeoutTypes : ~Due(i, t) /\ ~Dispatching(i, t)
    /\ now' = now + 1
    /\ UNCHANGED <<requests, usedIDs, state, ctxDone, wg, handler, stopAll,
                   traced, ret>>
    /\ UNCHANGED <<history, dispatch, wire>>

TimedCallers ==
    \/ \E id \in FollowedIds, s \in TimedDurations, m \in TimedDurations,
          cb \in StartCallbacks \ {NilCb} : StartRequest(id, s, m, cb)
    \/ \E id \in FollowedIds : CompleteRequest(id)
    \/ \E id \in FollowedIds : ResetTimeout(id)

TimedTimers ==
    \E i \in FollowedIds, t \in TimeoutTypes :
        \/ TimedTimerFire(i, t)
        \/ triggerCallback(i, t)
        \/ CallbackReturn(i, t)

TimedNext == TimedCallers \/ StopAll \/ TimedTimers \/ Tick

TimedSpec == Init /\ [][TimedNext]_vars

(***************************************************************************)
(* TimedCallSpec: TimedSpec with UpdateCallback, and with the calls and    *)
(* their returned values recorded in ret.                                  *)
(***************************************************************************)
TimedCallCallers ==
    \/ \E id \in FollowedIds, s \in CallDurations, m \in CallDurations,
          cb \in StartCallbacks \ {NilCb} : StartRequest(id, s, m, cb)
    \/ \E id \in FollowedIds : CompleteRequest(id)
    \/ \E id \in FollowedIds : ResetTimeout(id)
    \/ \E id \in FollowedIds, cb \in UpdateCallbacks : UpdateCallback(id, cb)

TimedCallNext == TimedCallCallers \/ StopAll \/ TimedTimers \/ Tick

TimedCallSpec == CallInit /\ [][TimedCallNext]_vars

(***************************************************************************)
(* ClockedCallSpec: the public calls on two requests, with a clock that    *)
(* advances freely.  No timer function is started: the runtime starts it   *)
(* at or after the deadline.                                               *)
(***************************************************************************)
Advance ==
    /\ now < MaxTime
    /\ now' = now + 1
    /\ UNCHANGED <<requests, usedIDs, state, ctxDone, wg, handler, stopAll,
                   traced, ret>>
    /\ UNCHANGED <<history, dispatch, wire>>

PairIds == {1, 2}

ClockedCalls ==
    \/ \E id \in PairIds, s \in CallDurations, m \in CallDurations,
          cb \in StartCallbacks \ {NilCb} : StartRequest(id, s, m, cb)
    \/ \E id \in PairIds, cb \in UpdateCallbacks : UpdateCallback(id, cb)
    \/ \E id \in PairIds : CompleteRequest(id)

ClockedCallNext == ClockedCalls \/ Advance

ClockedCallSpec == CallInit /\ [][ClockedCallNext]_vars

(***************************************************************************)
(* IdSpec: the id generators NextIntID and NextStringID (id.go) called by  *)
(* concurrent goroutines.  A call is three steps: the call, the            *)
(* atomic.AddInt64 on idCounter, and the return of the wrapped value.  The *)
(* manager is not used.                                                    *)
(***************************************************************************)
manager == <<requests, usedIDs, state, ctxDone, wg, handler, stopAll, now,
             traced, ret, history, dispatch>>

Digit(d) ==
    CASE d = 0 -> "0" [] d = 1 -> "1" [] d = 2 -> "2" [] d = 3 -> "3"
      [] d = 4 -> "4" [] d = 5 -> "5" [] d = 6 -> "6" [] d = 7 -> "7"
      [] d = 8 -> "8" [] d = 9 -> "9"

\* The verb %d for a non-negative integer: its decimal digits.
RECURSIVE FormatInt(_)
FormatInt(n) ==
    IF n < 10 THEN <<Digit(n)>>
    ELSE FormatInt(n \div 10) \o <<Digit(n % 10)>>

\* fmt.Sprintf("req-%d", id), a string being the sequence of its characters
Sprintf(id) == <<"r", "e", "q", "-">> \o FormatInt(id)

\* NewID
NewID(kind, value) == [kind |-> kind, v |-> value]

\* IDType.IsEmpty for an id of either kind: var zero T; id.Value == zero
Zero(kind) == IF kind = "int" THEN 0 ELSE <<>>

IDIsEmpty(id) == id.v = Zero(id.kind)

\* Calls of the generators begun so far.
Begun ==
    idCounter + Cardinality({th \in Threads : gen[th].pc \in {"add", "store"}})

\* NextIntID or NextStringID is called.
genCall(th, kind) ==
    /\ gen[th].pc = "idle"
    /\ Len(gen[th].got) < MaxCalls
    /\ Begun < MaxId
    /\ gen' = [gen EXCEPT ![th].pc = "add", ![th].kind = kind]
    /\ UNCHANGED <<manager, idCounter, arg, out>>

\* An increment made of a load and a later store.
AddInt64_LoadThenStore(th) ==
    /\ gen[th].pc \in {"add", "store"}
    /\ IF gen[th].pc = "add"
       THEN /\ gen' = [gen EXCEPT ![th].pc = "store", ![th].id = idCounter]
            /\ UNCHANGED idCounter
       ELSE /\ idCounter' = gen[th].id + 1
            /\ gen' = [gen EXCEPT ![th].pc = "return",
                                  ![th].id = gen[th].id + 1]
    /\ UNCHANGED <<manager, arg, out>>

\* id := atomic.AddInt64(&idCounter, 1)
AddInt64(th) ==
    /\ gen[th].pc = "add"
    /\ idCounter' = idCounter + 1
    /\ gen' = [gen EXCEPT ![th].pc = "return", ![th].id = idCounter + 1]
    /\ UNCHANGED <<manager, arg, out>>

\* return NewID(id), or return NewID(fmt.Sprintf("req-%d", id))
genReturn(th) ==
    /\ gen[th].pc = "return"
    /\ gen' = [gen EXCEPT ![th] =
            [pc |-> "idle", kind |-> "none", id |-> 0,
             got |-> Append(gen[th].got,
                        IF gen[th].kind = "int"
                        THEN NewID("int", gen[th].id)
                        ELSE NewID("string", Sprintf(gen[th].id)))]]
    /\ UNCHANGED <<manager, idCounter, arg, out>>

\* A goroutine that is not followed generates an id.
OtherCall ==
    /\ Begun < MaxId
    /\ idCounter' = idCounter + 1
    /\ UNCHANGED <<manager, gen, arg, out>>

IdNext ==
    \/ \E th \in Threads, kind \in {"int", "string"} : genCall(th, kind)
    \/ \E th \in Threads : AddInt64(th)
    \/ \E th \in Threads : genReturn(th)
    \/ OtherCall

IdSpec == Init /\ [][IdNext]_vars

(***************************************************************************)
(* CodecSpec: IDType.MarshalJSON and IDType.UnmarshalJSON (id.go) applied  *)
(* to every id of the bounded sets, and UnmarshalJSON applied to JSON      *)
(* texts of every kind.  A string, and a JSON text, is the sequence of its *)
(* characters.  A Go string holds arbitrary bytes: "xFF" stands for a byte *)
(* that is not valid UTF-8 and "uFFFD" for the character U+FFFD.           *)
(***************************************************************************)
DQ == "\""
BS == "\\"
InvalidByte == "xFF"
ReplacementChar == "uFFFD"
Chars == {"a", DQ, BS, InvalidByte, ReplacementChar}
Digits == {Digit(d) : d \in 0..9}

ErrInvalidID == "ErrInvalidID"
InvalidIDError == "InvalidIDError"

\* errors.Is(err, target): InvalidIDError.Is and InvalidIDError.Unwrap
ErrorsIs(err, target) ==
    IF err = InvalidIDError THEN target = ErrInvalidID ELSE err = target

RECURSIVE StringsUpTo(_)
StringsUpTo(n) ==
    IF n = 0 THEN {<<>>}
    ELSE LET S == StringsUpTo(n - 1)
         IN S \cup {Append(str, c) : str \in S, c \in Chars}

\* The ids that are serialized.
IdValues ==
    {NewID("int", n) : n \in (0 - MaxInt)..MaxInt}
        \cup {NewID("string", str) : str \in StringsUpTo(MaxStrLen)}

\* A string id that holds valid UTF-8.
ValidUTF8(str) == \A k \in 1..Len(str) : str[k] # InvalidByte

\* encoding/json writing a string: the quote and the backslash are
\* escaped, and a byte that is not valid UTF-8 is written as the escape of
\* U+FFFD.
RECURSIVE Escape(_)
Escape(str) ==
    IF str = <<>> THEN <<>>
    ELSE LET c == Head(str)
         IN (IF c = DQ THEN <<BS, DQ>>
             ELSE IF c = BS THEN <<BS, BS>>
             ELSE IF c = InvalidByte THEN <<BS, "u", "f", "f", "f", "d">>
             ELSE <<c>>) \o Escape(Tail(str))

\* A serialization that writes the characters of a string as they are.
MarshalJSON_NoEscape(id) ==
    IF id.kind = "int"
    THEN (IF id.v < 0 THEN <<"-">> \o FormatInt(0 - id.v) ELSE FormatInt(id.v))
    ELSE <<DQ>> \o id.v \o <<DQ>>

\* IDType.MarshalJSON: json.Marshal(id.Value)
MarshalJSON(id) ==
    IF id.kind = "int"
    THEN (IF id.v < 0 THEN <<"-">> \o FormatInt(0 - id.v) ELSE FormatInt(id.v))
    ELSE <<DQ>> \o Escape(id.v) \o <<DQ>>

\* The kind of JSON value a text begins.
JSONKind(data) ==
    IF data = <<>> THEN "invalid"
    ELSE CASE data[1] = DQ -> "string"
           [] data[1] \in Digits \cup {"-"} -> "number"
           [] data[1] = "{" -> "object"
           [] data[1] = "[" -> "array"
           [] data[1] \in {"t", "f"} -> "bool"
           [] data = <<"n", "u", "l", "l">> -> "null"
           [] OTHER -> "invalid"

Bad == "syntax error"

\* encoding/json reading the characters between the quotes of a string.
RECURSIVE Unescape(_)
Unescape(b) ==
    IF b = <<>> THEN <<>>
    ELSE IF Head(b) = BS
    THEN IF Len(b) >= 2 /\ b[2] \in {DQ, BS}
         THEN <<b[2]>> \o Unescape(SubSeq(b, 3, Len(b)))
         ELSE IF Len(b) >= 6 /\ SubSeq(b, 2, 6) = <<"u", "f", "f", "f", "d">>
         THEN <<ReplacementChar>> \o Unescape(SubSeq(b, 7, Len(b)))
         ELSE <<Bad>>
    ELSE IF Head(b) = DQ THEN <<Bad>>
    ELSE IF Head(b) = InvalidByte
    THEN <<ReplacementChar>> \o Unescape(Tail(b))
    ELSE <<Head(b)>> \o Unescape(Tail(b))

DigitValue(c) == CHOOSE d \in 0..9 : Digit(d) = c

RECURSIVE ParseDigits(_)
ParseDigits(ds) ==
    IF Len(ds) = 1 THEN DigitValue(ds[1])
    ELSE 10 * ParseDigits(SubSeq(ds, 1, Len(ds) - 1)) + DigitValue(ds[Len(ds)])

\* A JSON number without fraction and exponent.
IsIntegerLiteral(data) ==
    LET ds == IF data # <<>> /\ data[1] = "-" THEN Tail(data) ELSE data
    IN /\ ds # <<>>
       /\ \A k \in 1..Len(ds) : ds[k] \in Digits
       /\ Len(ds) > 1 => ds[1] # "0"

ParseInt(data) ==
    IF data[1] = "-" THEN 0 - ParseDigits(Tail(data)) ELSE ParseDigits(data)

\* json.Unmarshal(data, &id.Value) for a fresh id of the kind: the error
\* (or nil) and id.Value afterwards.  null is no error and leaves the
\* value as it is; a text of another kind, or one that is not JSON, is an
\* error.
JSONUnmarshal(kind, data) ==
    LET k == JSONKind(data)
        body == SubSeq(data, 2, Len(data) - 1)
        Fails == [err |-> "json error", v |-> Zero(kind)]
    IN
    IF k = "null" THEN [err |-> NoErr, v |-> Zero(kind)]
    ELSE IF kind = "string"
    THEN IF k = "string" /\ Len(data) >= 2 /\ data[Len(data)] = DQ
            /\ \A n \in 1..Len(Unescape(body)) : Unescape(body)[n] # Bad
         THEN [err |-> NoErr, v |-> Unescape(body)]
         ELSE Fails
    ELSE IF k = "number" /\ IsIntegerLiteral(data)
         THEN [err |-> NoErr, v |-> ParseInt(data)]
         ELSE Fails

\* IDType.UnmarshalJSON
UnmarshalJSON(kind, data) ==
    LET r == JSONUnmarshal(kind, data)
    IN
    IF r.err # NoErr THEN [err |-> InvalidIDError, id |-> NewID(kind, r.v)]
    ELSE IF IDIsEmpty(NewID(kind, r.v))
    THEN [err |-> ErrEmptyRequestID, id |-> NewID(kind, r.v)]
    ELSE [err |-> NoErr, id |-> NewID(kind, r.v)]

\* JSON texts that are not the serialization of an id of the kind asked for.
Texts ==
    {<<"{", "}">>, <<"[", "]">>, <<"t", "r", "u", "e">>,
     <<"n", "u", "l", "l">>, <<"1", ".", "5">>, <<"0", "1">>, <<"-">>,
     <<"7">>, <<"0">>, <<DQ, "a", DQ>>, <<DQ, DQ>>, <<DQ, "a">>, <<>>}

CodecArgs ==
    {[to |-> "round trip", id |-> id] : id \in IdValues}
        \cup {[to |-> "decode", kind |-> kind, data |-> data] :
                kind \in {"int", "string"}, data \in Texts}

\* json.Marshal(id)
CodecMarshal ==
    /\ arg.to = "round trip"
    /\ out.stage = "none"
    /\ out' = [stage |-> "encoded", data |-> MarshalJSON(arg.id)]
    /\ UNCHANGED <<manager, idCounter, gen, arg>>

\* json.Unmarshal(data, &id) of the serialization, into a fresh id
CodecUnmarshal ==
    /\ arg.to = "round trip"
    /\ out.stage = "encoded"
    /\ out' = [stage |-> "decoded"] @@ UnmarshalJSON(arg.id.kind, out.data)
    /\ UNCHANGED <<manager, idCounter, gen, arg>>

\* json.Unmarshal(data, &id) of a given text, into a fresh id
CodecDecode ==
    /\ arg.to = "decode"
    /\ out.stage = "none"
    /\ out' = [stage |-> "decoded"] @@ UnmarshalJSON(arg.kind, arg.data)
    /\ UNCHANGED <<manager, idCounter, gen, arg>>

CodecNext == CodecMarshal \/ CodecUnmarshal \/ CodecDecode

CodecInit ==
    /\ NewRequestLifecycleManager /\ traced = FALSE /\ onError = NilCb
    /\ idCounter = 0
    /\ gen = [th \in Threads |-> IdleGen]
    /\ arg \in CodecArgs
    /\ out = NoOut

CodecSpec == CodecInit /\ [][CodecNext]_vars

(***************************************************************************)
(* EnvelopeSpec: the validation of responses (JSONRPCResponse.Validate of  *)
(* response.go and the earlier jsonRPCResponse.validate) and of requests   *)
(* (JSONRPCRequest.Validate) applied to every envelope of the bounded      *)
(* sets.                                                                   *)
(***************************************************************************)
JSONRPCVersion == "2.0"
Versions == {JSONRPCVersion, "1.0", "2", ""}

Nil == "nil pointer"

ValidationError(reason) == [type |-> "ValidationError", reason |-> reason]
NoError == [type |-> "nil", reason |-> ""]

EnvelopeIds ==
    {NewID("string", <<>>), NewID("string", <<"a">>), NewID("int", 0),
     NewID("int", 7)}

\* *RPCError: nil, or an error object with a code and a message
NilError == [ptr |-> Nil, Code |-> 0, Message |-> ""]

RPCErrors ==
    {NilError} \cup
        [ptr : {"RPCError"}, Code : {0, -32601},
         Message : {"", "Method not found"}]

Responses ==
    [JSONRPC : Versions, ID : EnvelopeIds, Result : {Nil, "result"},
     Error : RPCErrors]

\* Validate without the test for a response that has both members.
JSONRPCResponseValidate_AllowsBoth(r) ==
    IF r.JSONRPC # JSONRPCVersion
    THEN ValidationError("invalid JSON-RPC version")
    ELSE IF IDIsEmpty(r.ID)
    THEN ValidationError("response ID must not be empty")
    ELSE IF r.Result = Nil /\ r.Error = NilError
    THEN ValidationError("response MUST contain either result or error")
    ELSE IF r.Error # NilError /\ r.Error.Code = 0
    THEN ValidationError("error code must be non-zero integer")
    ELSE IF r.Error # NilError /\ r.Error.Message = ""
    THEN ValidationError("error message must not be empty")
    ELSE NoError

\* JSONRPCResponse.Validate (response.go)
JSONRPCResponseValidate(r) ==
    IF r.JSONRPC # JSONRPCVersion
    THEN ValidationError("invalid JSON-RPC version")
    ELSE IF IDIsEmpty(r.ID)
    THEN ValidationError("response ID must not be empty")
    ELSE IF r.Result # Nil /\ r.Error # NilError
    THEN ValidationError("response MUST NOT contain both result and error")
    ELSE IF r.Result = Nil /\ r.Error = NilError
    THEN ValidationError("response MUST contain either result or error")
    ELSE IF r.Error # NilError /\ r.Error.Code = 0
    THEN ValidationError("error code must be non-zero integer")
    ELSE IF r.Error # NilError /\ r.Error.Message = ""
    THEN ValidationError("error message must not be empty")
    ELSE NoError

\* jsonRPCResponse.validate (the earlier response type)
jsonRPCResponseValidate(r) ==
    IF r.JSONRPC # JSONRPCVersion
    THEN ValidationError("invalid JSON-RPC version")
    ELSE IF IDIsEmpty(r.ID)
    THEN ValidationError("response ID must not be empty")
    ELSE IF r.Result # Nil /\ r.Error # NilError
    THEN ValidationError("response MUST NOT contain both result and error")
    ELSE IF r.Result = Nil /\ r.Error = NilError
    THEN ValidationError("response MUST contain either result or error")
    ELSE IF r.Error # NilError /\ r.Error.Message = ""
    THEN ValidationError("error must contain non-empty message")
    ELSE NoError

Space == " "
Tab == "\t"
Whitespace == {Space, Tab}
MethodChars == Whitespace \cup {"r", "p", "c", "."}

RECURSIVE MethodsUpTo(_)
MethodsUpTo(n) ==
    IF n = 0 THEN {<<>>}
    ELSE LET S == MethodsUpTo(n - 1)
         IN S \cup {Append(str, c) : str \in S, c \in MethodChars}

Requests ==
    [JSONRPC : Versions, Method : MethodsUpTo(MaxMethodLen), ID : EnvelopeIds]

\* strings.TrimSpace
RECURSIVE TrimSpace(_)
TrimSpace(str) ==
    IF str = <<>> THEN <<>>
    ELSE IF Head(str) \in Whitespace THEN TrimSpace(Tail(str))
    ELSE IF str[Len(str)] \in Whitespace
    THEN TrimSpace(SubSeq(str, 1, Len(str) - 1))
    ELSE str

\* strings.HasPrefix
HasPrefix(str, prefix) ==
    Len(str) >= Len(prefix) /\ SubSeq(str, 1, Len(prefix)) = prefix

\* Validate that tests the reserved prefix before the id.
JSONRPCRequestValidate_PrefixBeforeID(r) ==
    IF r.JSONRPC # JSONRPCVersion
    THEN ValidationError("invalid JSON-RPC version")
    ELSE IF TrimSpace(r.Method) = <<>>
    THEN ValidationError("method name cannot be empty or whitespace")
    ELSE IF HasPrefix(r.Method, <<"r", "p", "c", ".">>)
    THEN ValidationError("method names starting with 'rpc.' are reserved")
    ELSE IF IDIsEmpty(r.ID)
    THEN ValidationError("id must not be empty")
    ELSE NoError

\* JSONRPCRequest.Validate
JSONRPCRequestValidate(r) ==
    IF r.JSONRPC # JSONRPCVersion
    THEN ValidationError("invalid JSON-RPC version")
    ELSE IF TrimSpace(r.Method) = <<>>
    THEN ValidationError("method name cannot be empty or whitespace")
    ELSE IF IDIsEmpty(r.ID)
    THEN ValidationError("id must not be empty")
    ELSE IF HasPrefix(r.Method, <<"r", "p", "c", ".">>)
    THEN ValidationError("method names starting with 'rpc.' are reserved")
    ELSE NoError

EnvelopeArgs ==
    {[to |-> fn, r |-> r] : fn \in {"Validate", "validate"}, r \in Responses}
        \cup {[to |-> "Request.Validate", r |-> r] : r \in Requests}

ValidateResponse ==
    /\ arg.to = "Validate" /\ out.stage = "none"
    /\ out' = [stage |-> "validated", err |-> JSONRPCResponseValidate(arg.r)]
    /\ UNCHANGED <<manager, idCounter, gen, arg>>

validateResponse ==
    /\ arg.to = "validate" /\ out.stage = "none"
    /\ out' = [stage |-> "validated", err |-> jsonRPCResponseValidate(arg.r)]
    /\ UNCHANGED <<manager, idCounter, gen, arg>>

ValidateRequest ==
    /\ arg.to = "Request.Validate" /\ out.stage = "none"
    /\ out' = [stage |-> "validated", err |-> JSONRPCRequestValidate(arg.r)]
    /\ UNCHANGED <<manager, idCounter, gen, arg>>

EnvelopeNext == ValidateResponse \/ validateResponse \/ ValidateRequest

EnvelopeInit ==
    /\ NewRequestLifecycleManager /\ traced = FALSE /\ onError = NilCb
    /\ idCounter = 0
    /\ gen = [th \in Threads |-> IdleGen]
    /\ arg \in EnvelopeArgs
    /\ out = NoOut

EnvelopeSpec == EnvelopeInit /\ [][EnvelopeNext]_vars

(***************************************************************************)
(* DecodeSpec: UnmarshalJSON of the envelopes, applied to a target that    *)
(* holds a value already.  The data is empty, or not JSON, or a JSON       *)
(* object given by its members (form says which); encoding/json decodes the members into the *)
(* auxiliary struct, the id member by IDType.UnmarshalJSON, and returns    *)
(* the first error.  A member that is absent leaves the zero value.        *)
(***************************************************************************)
ErrEmptyJSONData == [type |-> "error", reason |-> "empty JSON data"]
SyntaxError == [type |-> "SyntaxError", reason |-> "invalid character"]
IDError(err) == [type |-> "IDError", reason |-> err]

Absent == <<"absent">>
IdMembers == {Absent, <<"7">>, <<"0">>, <<DQ, "a", DQ>>, <<"t", "r", "u", "e">>}
DecodeVersions == {JSONRPCVersion, "1.0"}
DecodeMethods == {<<>>, <<"p">>, <<"r", "p", "c", ".">>}

EmptyData == [form |-> "empty"]
NotJSON == [form |-> "not JSON"]

ResponseObjects ==
    [form : {"object"}, jsonrpc : DecodeVersions, id : IdMembers, result : {Nil, "result"},
     error : {NilError,
              [ptr |-> "RPCError", Code |-> -32601,
               Message |-> "Method not found"],
              [ptr |-> "RPCError", Code |-> 0, Message |-> "zero"]}]

RequestObjects ==
    [form : {"object"}, jsonrpc : DecodeVersions, id : IdMembers, method : DecodeMethods]

\* The id member decoded into a fresh IDType of the kind.
DecodeID(kind, member) ==
    IF member = Absent THEN [err |-> NoErr, id |-> NewID(kind, Zero(kind))]
    ELSE UnmarshalJSON(kind, member)

\* json.Unmarshal(data, aux) for a response: the error and the value of aux
DecodeResponse(kind, data) ==
    IF data.form = "not JSON" THEN [err |-> SyntaxError]
    ELSE IF DecodeID(kind, data.id).err # NoErr
    THEN [err |-> IDError(DecodeID(kind, data.id).err)]
    ELSE [err |-> NoError,
          aux |-> [JSONRPC |-> data.jsonrpc, ID |-> DecodeID(kind, data.id).id,
                   Result |-> data.result, Error |-> data.error]]

\* json.Unmarshal(data, &aux) for a request
DecodeRequest(kind, data) ==
    IF data.form = "not JSON" THEN [err |-> SyntaxError]
    ELSE IF DecodeID(kind, data.id).err # NoErr
    THEN [err |-> IDError(DecodeID(kind, data.id).err)]
    ELSE [err |-> NoError,
          aux |-> [JSONRPC |-> data.jsonrpc, Method |-> data.method,
                   ID |-> DecodeID(kind, data.id).id]]

\* JSONRPCResponse.UnmarshalJSON: the error returned and the target after
\* the call.  *r is assigned before r.Validate() is called.
JSONRPCResponseUnmarshalJSON(r, kind, data) ==
    IF data.form = "empty" THEN [err |-> ErrEmptyJSONData, r |-> r]
    ELSE LET d == DecodeResponse(kind, data)
         IN  IF d.err # NoError THEN [err |-> d.err, r |-> r]
             ELSE [err |-> JSONRPCResponseValidate(d.aux), r |-> d.aux]

\* jsonRPCResponse.UnmarshalJSON
jsonRPCResponseUnmarshalJSON(r, kind, data) ==
    IF data.form = "empty" THEN [err |-> ErrEmptyJSONData, r |-> r]
    ELSE LET d == DecodeResponse(kind, data)
         IN  IF d.err # NoError THEN [err |-> d.err, r |-> r]
             ELSE IF jsonRPCResponseValidate(d.aux) # NoError
             THEN [err |-> jsonRPCResponseValidate(d.aux), r |-> r]
             ELSE [err |-> NoError, r |-> d.aux]

\* JSONRPCRequest.UnmarshalJSON
JSONRPCRequestUnmarshalJSON(r, kind, data) ==
    IF data.form = "empty" THEN [err |-> ErrEmptyJSONData, r |-> r]
    ELSE LET d == DecodeRequest(kind, data)
         IN  IF d.err # NoError THEN [err |-> d.err, r |-> r]
             ELSE IF JSONRPCRequestValidate(d.aux) # NoError
             THEN [err |-> JSONRPCRequestValidate(d.aux), r |-> r]
             ELSE [err |-> NoError, r |-> d.aux]

\* The values the target may hold before the call: the zero value, or an
\* envelope decoded earlier.
ResponseTargets(kind) ==
    {[JSONRPC |-> "", ID |-> NewID(kind, Zero(kind)), Result |-> Nil,
      Error |-> NilError],
     [JSONRPC |-> JSONRPCVersion,
      ID |-> NewID(kind, IF kind = "int" THEN 3 ELSE <<"b">>),
      Result |-> "earlier result", Error |-> NilError]}

RequestTargets(kind) ==
    {[JSONRPC |-> "", Method |-> <<>>, ID |-> NewID(kind, Zero(kind))],
     [JSONRPC |-> JSONRPCVersion, Method |-> <<"q">>,
      ID |-> NewID(kind, IF kind = "int" THEN 3 ELSE <<"b">>)]}

DecodeArgs ==
    UNION {
      {[to |-> fn, kind |-> kind, data |-> data, r |-> r] :
          fn \in {"JSONRPCResponse", "jsonRPCResponse"},
          data \in ResponseObjects \cup {EmptyData, NotJSON},
          r \in ResponseTargets(kind)}
      \cup
      {[to |-> "JSONRPCRequest", kind |-> kind, data |-> data, r |-> r] :
          data \in RequestObjects \cup {EmptyData, NotJSON},
          r \in RequestTargets(kind)}
      : kind \in {"int", "string"}}

UnmarshalResponse ==
    /\ arg.to = "JSONRPCResponse" /\ out.stage = "none"
    /\ out' = [stage |-> "unmarshalled"]
                @@ JSONRPCResponseUnmarshalJSON(arg.r, arg.kind, arg.data)
    /\ UNCHANGED <<manager, idCounter, gen, arg>>

unmarshalResponse ==
    /\ arg.to = "jsonRPCResponse" /\ out.stage = "none"
    /\ out' = [stage |-> "unmarshalled"]
                @@ jsonRPCResponseUnmarshalJSON(arg.r, arg.kind, arg.data)
    /\ UNCHANGED <<manager, idCounter, gen, arg>>

UnmarshalRequest ==
    /\ arg.to = "JSONRPCRequest" /\ out.stage = "none"
    /\ out' = [stage |-> "unmarshalled"]
                @@ JSONRPCRequestUnmarshalJSON(arg.r, arg.kind, arg.data)
    /\ UNCHANGED <<manager, idCounter, gen, arg>>

DecodeNext == UnmarshalResponse \/ unmarshalResponse \/ UnmarshalRequest

DecodeInit ==
    /\ NewRequestLifecycleManager /\ traced = FALSE /\ onError = NilCb
    /\ idCounter = 0
    /\ gen = [th \in Threads |-> IdleGen]
    /\ arg \in DecodeArgs
    /\ out = NoOut

DecodeSpec == DecodeInit /\ [][DecodeNext]_vars

(***************************************************************************)
(* Properties                                                              *)
(***************************************************************************)
Running == {<<i, t>> \in Ids \X TimeoutTypes : handler[i][t].pc = "running"}

\* The ids collected by a sweep of StopAll (returned, or about to be).
Swept == stoppedIDs \cup stopAll.ids

\* C1: for any id, at most one StartRequest(id) ever returns success,
\* however the earlier registration ended.
C1_AtMostOneStart == \A i \in Ids : started[i] <= 1

\* A registration that was ended by its timeout callback.
C1_Witness ==
    \E i \in Ids : started[i] = 1 /\ i \notin requests /\ Len(invoked[i]) = 1

\* C2: the timeout callback of a registration is invoked at most once,
\* also when both timer handlers of the request run concurrently.
C2_AtMostOneCallback == \A i \in Ids : Len(invoked[i]) <= 1

\* One handler has invoked the callback while the other handler of the same
\* request has fired, passed the cancellation check and is about to call
\* cleanupRequest.
C2_Witness ==
    \E i \in Ids, t \in TimeoutTypes :
        Len(invoked[i]) = 1 /\ handler[i][t].pc = "cleanup"

\* C3: when StopAll(true) returns, no callback that was entered before is
\* still executing.
C3_StopAllWaitsForCallbacks ==
    [][(stopAll.pc = "wait" /\ stopAll.wait /\ stopAll'.pc = "idle")
            => Running = {}]_vars

\* C4: a StopAll(true) that has swept the active table returns (unless a
\* new request is registered meanwhile), given that every handler runs on
\* and every callback returns.
C4_StopAllWaitReturns ==
    (stopAll.pc = "wait" /\ stopAll.wait /\ requests = {})
        ~> (stopAll.pc = "idle" \/ requests # {})

\* C5: after a StopAll call has returned, no callback invocation begins.
C5_NoCallbackAfterStopAll == [][stopReturned => invoked' = invoked]_vars

\* C6 as stated: once any CompleteRequest(id) has returned, no callback
\* invocation for id begins.
C6_NoCallbackAfterComplete ==
    [][\A i \in Ids : completed[i] # "no" => invoked'[i] = invoked[i]]_vars

\* C6 amended: once a CompleteRequest(id) that found and removed the state
\* of id has returned, no callback invocation for id begins.
C6_NoCallbackAfterRemoval ==
    [][\A i \in Ids : completed[i] = "removed" => invoked'[i] = invoked[i]]_vars

\* CompleteRequest removed the state while a handler of the request had
\* already passed the cancellation check and copied the callback.
C6_Witness ==
    \E i \in Ids, t \in TimeoutTypes :
        completed[i] = "removed" /\ handler[i][t].pc = "cleanup"

\* C7: a request is ended by at most one of: removal by CompleteRequest, a
\* timeout callback (soft or maximum, once), the sweep of StopAll.
C7_OneTerminalEvent ==
    \A i \in Ids :
        /\ Len(invoked[i]) <= 1
        /\ ~(i \in Swept /\ invoked[i] # <<>>)
        /\ ~(completed[i] = "removed" /\ invoked[i] # <<>>)
        /\ ~(completed[i] = "removed" /\ i \in Swept)

\* StopAll returned the id while a handler of the request, which had passed
\* the cancellation check before the cancel, is about to call cleanupRequest.
C7_Witness ==
    \E i \in stoppedIDs, t \in TimeoutTypes : handler[i][t].pc = "cleanup"

\* C8: once UpdateCallback(id, cb2) has returned success (the stored
\* callback of id is cb2 from then on), a callback invocation that begins
\* for id invokes cb2.
C8_UpdatedCallbackWins ==
    [][\A i \in Ids :
          (state[i].onTimeout \in UpdateCallbacks \ {NilCb}
              /\ invoked'[i] # invoked[i])
              => invoked'[i][Len(invoked'[i])].cb = state[i].onTimeout]_vars

\* The first failing check of StartRequest in the order of C9.
FirstFailure(c) ==
    CASE c.cb = NilCb -> ErrCallbackNil
      [] c.cb # NilCb /\ c.id = EmptyID -> ErrEmptyRequestID
      [] c.cb # NilCb /\ c.id # EmptyID /\ c.used -> ErrDuplicateRequestID
      [] c.cb # NilCb /\ c.id # EmptyID /\ ~c.used /\ c.soft <= 0 ->
            ErrSoftTimeoutNotPositive
      [] c.cb # NilCb /\ c.id # EmptyID /\ ~c.used /\ c.soft > 0
            /\ c.max <= 0 -> ErrMaximumTimeoutNotPositive
      [] c.cb # NilCb /\ c.id # EmptyID /\ ~c.used /\ c.soft > 0
            /\ c.max > 0 /\ c.soft > c.max -> ErrSoftTimeoutExceedsMaximum
      [] OTHER -> NoErr

C10_UsedIDsAreRegisteredIDs ==
    /\ usedIDs = {i \in Ids : started[i] > 0}
    /\ (ret.op = "StartRequest" /\ ret.err # NoErr /\ ret.cb # NilCb
          /\ ret.id # EmptyID /\ 0 < ret.soft /\ ret.soft <= ret.max)
            => started[ret.id] > 0

\* C11: no step removes an id from usedIDs, and no StartRequest succeeds for
\* an id that is in usedIDs, however the request of that id was ended.
C11_UsedIDsOnlyGrows ==
    [][\A i \in usedIDs : i \in usedIDs' /\ started'[i] = started[i]]_vars

\* StopAll has returned an id, which is no longer active and still used.
C11_Witness ==
    \E i \in stoppedIDs : i \notin requests /\ i \in usedIDs

\* C12: the sweep of StopAll collects exactly the ids of the active table
\* and leaves the table empty (Len() = 0, ActiveIDs() empty), and StopAll
\* returns the ids it collected.
C12_StopAllReturnsActiveIDs ==
    [][/\ (stopAll.pc = "sweep" /\ stopAll'.pc = "wait") =>
            /\ stopAll'.ids = ActiveIDs
            /\ ActiveIDs' = {} /\ ManagerLen' = 0
       /\ (stopAll.pc = "wait" /\ stopAll'.pc = "idle") =>
            stoppedIDs' = stoppedIDs \cup stopAll.ids]_vars

\* A sweep has just collected a request that was active.
C12_Witness ==
    stopAll.pc = "wait" /\ stopAll.ids # {} /\ ManagerLen = 0

\* C13: Done() is signalled exactly from the m.cancel() of the first
\* StopAll on: not while no StopAll has begun, and in every state in which a
\* StopAll is in progress (its sweep not yet done included) or has returned.
C13_DoneSinceStopAllBegan ==
    Done <=> (stopAll.pc # "idle" \/ stopReturned)

\* StopAll has cancelled and is about to sweep a table that is not empty.
C13_Witness ==
    Done /\ stopAll.pc = "sweep" /\ ActiveIDs # {}

\* The instant the maximum timer of the request of i was scheduled for by
\* StartRequest, and the instant its soft timer was last armed for (by
\* StartRequest or by the last ResetTimeout that re-armed it: both set
\* lastActivity, and under TimedSpec nothing else does).
MaximumDeadline(i) == startedAt[i] + state[i].maximumTimeout

SoftDeadline(i) == state[i].lastActivity + state[i].softTimeout

\* The request of i was ended by CompleteRequest or by a StopAll.
Ended(i) == completed[i] = "removed" \/ i \in Swept \/ ctxDone

ReportsOf(i) == {k \in 1..Len(reported) : reported[k].id = i}

\* The handlers of i that returned after recovering a panic.
Recovered(i) == {t \in TimeoutTypes : handler[i][t].pc = "recovered"}

\* C18: a panic of a callback is recovered in its handler: the request is
\* no longer active when the callback panics; each recovered panic is
\* reported exactly once, to the error handler when one is installed, with
\* the id and a message that contains the panic value; the handler holds
\* no lock, and the pending counter is what it is without the panic (one
\* per request that cleanupRequest has not removed).
C18_CallbackPanicContained ==
    /\ \A i \in Ids :
          /\ \A t \in TimeoutTypes :
                handler[i][t].pc \in {"panicked", "recovered"} =>
                    i \notin requests /\ mu # <<i, t>>
          /\ Cardinality(ReportsOf(i)) = Cardinality(Recovered(i))
          /\ Cardinality(ReportsOf(i)) <= 1
    /\ \A k \in 1..Len(reported) :
          /\ reported[k].to = IF onError # NilCb THEN "onError" ELSE "stdout"
          /\ \E n \in 1..Len(reported[k].msg) :
                reported[k].msg[n] = PanicValue
    /\ wg = Cardinality(requests) + Cardinality(Swept)

\* The error handler has received the panic of the callback of a request,
\* the lock is free and another request is active.
C18_Witness ==
    \E i \in Ids :
        /\ Recovered(i) # {}
        /\ \E k \in ReportsOf(i) : reported[k].to = "onError"
        /\ mu = Free /\ requests # {} /\ wg = Cardinality(requests)

\* C19: while a callback runs, or the panic of a callback is being
\* reported, its goroutine does not hold m.mu; and whoever holds m.mu is a
\* handler inside one of its two critical sections, which it leaves
\* without waiting for anything, so that a call from the callback into the
\* manager gets the lock.
C19_CallbackOutsideLock ==
    /\ \A i \in Ids, t \in TimeoutTypes :
          /\ handler[i][t].pc \in {"running", "panicked"} => mu # <<i, t>>
          /\ mu = <<i, t>> <=> handler[i][t].pc \in Locked
    /\ mu # Free => \E i \in Ids, t \in TimeoutTypes : mu = <<i, t>>

\* A callback that is still running has registered a request with another
\* id and has called StopAll(false).
C19_Witness ==
    \E i \in FollowedIds, t \in TimeoutTypes, j \in Ids \ FollowedIds :
        /\ handler[i][t].pc = "running"
        /\ started[j] = 1 /\ stopReturned

\* What UpdateCallback and ResetTimeout have to return for a call c made
\* when the active table was `active`.
LookupResult(c, active) ==
    IF c.op = "UpdateCallback" /\ c.cb = NilCb THEN ErrCallbackNil
    ELSE IF c.id \notin active THEN ErrRequestNotFound
    ELSE NoErr

\* C20: UpdateCallback returns CallbackNil for a nil callback whatever the
\* id; otherwise UpdateCallback and ResetTimeout return RequestNotFound
\* exactly when the id is not in the active table at the call (never
\* started, or ended by completion, callback or StopAll, in usedIDs or
\* not), and a call that returns an error changes nothing.
C20_LookupInActiveTable ==
    [][(ret' # ret /\ ret'.op \in {"UpdateCallback", "ResetTimeout"}) =>
            /\ ret'.err = LookupResult(ret', requests)
            /\ ret'.err # NoErr =>
                  UNCHANGED <<requests, usedIDs, state, ctxDone, wg,
                              handler, stopAll>>]_vars

\* UpdateCallback with a callback has returned RequestNotFound for an id
\* that is in usedIDs and was returned by StopAll.
C20_Witness ==
    /\ ret.op = "UpdateCallback" /\ ret.cb # NilCb
    /\ ret.err = ErrRequestNotFound
    /\ ret.id \in usedIDs /\ ret.id \in stoppedIDs

\* A step of CompleteRequest under LookupSpec: the last call is a
\* CompleteRequest and the step is none of a timer, a handler or StopAll
\* (each of which moves a handler or the StopAll thread).
CompleteStep ==
    /\ ret'.op = "CompleteRequest"
    /\ handler' = handler /\ stopAll' = stopAll

\* C21: CompleteRequest(id) for an id that is not active (never started,
\* or ended by an earlier CompleteRequest, a timeout callback or StopAll)
\* changes neither the active table, usedIDs, a timer or another field of a
\* request state, nor the pending counter; CompleteRequest(id) for an
\* active id leaves id absent from the active table.
C21_CompleteRequestIdempotent ==
    [][CompleteStep =>
          /\ ret'.id \notin requests =>
                UNCHANGED <<requests, usedIDs, state, wg, ctxDone>>
          /\ ret'.id \notin requests'
          /\ usedIDs' = usedIDs]_vars

\* CompleteRequest was called for a request that its timeout callback had
\* ended.
C21_Witness ==
    /\ ret.op = "CompleteRequest" /\ ret.id \in usedIDs
    /\ ret.id \notin requests /\ Len(invoked[ret.id]) = 1
    /\ wg = 0

\* C22: m.mu is held only inside a critical section (by the calling thread
\* between Lock and the deferred Unlock, by a dispatching goroutine inside
\* its copy or its cleanupRequest), never by a goroutine whose callback is
\* running and never by StopAll when it waits or returns; and every call of
\* an operation that takes the lock returns, and every StopAll(false)
\* returns, however long a callback runs.
C22_OperationsTerminate ==
    /\ [](/\ \A i \in Ids, t \in TimeoutTypes :
               mu = <<i, t>> <=> handler[i][t].pc \in Locked
          /\ mu = Caller =>
                \/ ret.op # "waiting" /\ stopAll.pc = "idle"
                \/ ret.op = "waiting" /\ stopAll.pc = "idle"
                \/ stopAll.pc \in {"sweep", "wait"} /\ ret.op # "waiting")
    /\ (ret.op = "waiting") ~> (ret.op # "waiting" /\ mu # Caller)
    /\ (mu = Caller) ~> (mu # Caller)
    /\ (stopAll.pc # "idle" /\ ~stopAll.wait) ~> (stopAll.pc = "idle")

\* A StartRequest that took the lock has returned an error and the lock is
\* free, while a callback is still running.
C22_Witness ==
    /\ ret.op = "StartRequest" /\ ret.cb # NilCb /\ ret.id # EmptyID
    /\ ret.err # NoErr
    /\ mu = Free
    /\ Running # {}

\* The ids the followed goroutines have received: <<goroutine, position>>.
Got == {<<th, k>> \in Threads \X (1..MaxCalls) : k <= Len(gen[th].got)}

GotID(x) == gen[x[1]].got[x[2]]

\* The counter value an id was made of.
CounterOf(id) ==
    IF id.kind = "int" THEN id.v
    ELSE CHOOSE n \in 0..MaxId : Sprintf(n) = id.v

\* C23: no two ids returned by NextIntID and NextStringID, to the same or
\* to different goroutines, of the same or of different kinds, are made of
\* the same counter value; no returned id is empty (0 or ""); and the
\* NextIntID results one goroutine receives are strictly increasing.
C23_GeneratedIDsUnique ==
    /\ \A x \in Got, y \in Got :
          x # y => CounterOf(GotID(x)) # CounterOf(GotID(y))
    /\ \A x \in Got :
          /\ ~IDIsEmpty(GotID(x))
          /\ CounterOf(GotID(x)) \in 1..idCounter
    /\ \A th \in Threads, k \in 1..MaxCalls, l \in 1..MaxCalls :
          (k < l /\ l <= Len(gen[th].got)
             /\ gen[th].got[k].kind = "int" /\ gen[th].got[l].kind = "int")
            => gen[th].got[k].v < gen[th].got[l].v

\* Two goroutines were inside the generators at the same time, one in
\* NextIntID and one in NextStringID, and both have their ids.
C23_Witness ==
    \E th \in Threads, ot \in Threads :
        /\ th # ot
        /\ Len(gen[th].got) = MaxCalls /\ gen[ot].got # <<>>
        /\ gen[th].got[1].kind = "int" /\ gen[th].got[2].kind = "int"
        /\ gen[ot].got[1].kind = "string"
        /\ gen[th].got[1].v < CounterOf(gen[ot].got[1])
        /\ CounterOf(gen[ot].got[1]) < gen[th].got[2].v

\* The serialization of an id has been decoded.
Decoded == arg.to = "round trip" /\ out.stage = "decoded"

\* A JSON text of another kind than the id's: a number for a string id,
\* a string for an integer id, a boolean, an object or an array.
WrongKind ==
    /\ arg.to = "decode"
    /\ JSONKind(arg.data) \in {"string", "number", "bool", "object", "array"}
    /\ JSONKind(arg.data) # (IF arg.kind = "int" THEN "number" ELSE "string")

\* C24 as stated: for every id v, decoding the serialization of v fails
\* with EmptyRequestID when v is the zero value and otherwise succeeds with
\* an id equal to v; a text of the wrong kind fails with an InvalidIDError
\* that matches the sentinel InvalidID.
C24_RoundTrip ==
    /\ Decoded =>
          IF IDIsEmpty(arg.id) THEN out.err = ErrEmptyRequestID
          ELSE out.err = NoErr /\ out.id = arg.id
    /\ (WrongKind /\ out.stage = "decoded") =>
          out.err = InvalidIDError /\ ErrorsIs(out.err, ErrInvalidID)

\* C24 amended: the same for every integer id and every string id that
\* holds valid UTF-8; a string id with a byte that is not valid UTF-8 is
\* decoded, without an error, as that string with U+FFFD in the place of
\* each such byte.  JSON null is no InvalidIDError: a fresh id decoded from
\* it fails with EmptyRequestID.
C24_RoundTripValidUTF8 ==
    /\ (Decoded /\ (arg.id.kind = "string" => ValidUTF8(arg.id.v))) =>
          IF IDIsEmpty(arg.id) THEN out.err = ErrEmptyRequestID
          ELSE out.err = NoErr /\ out.id = arg.id
    /\ (Decoded /\ arg.id.kind = "string" /\ ~ValidUTF8(arg.id.v)) =>
          /\ out.err = NoErr
          /\ out.id =
                NewID("string",
                      [k \in 1..Len(arg.id.v) |->
                          IF arg.id.v[k] = InvalidByte THEN ReplacementChar
                          ELSE arg.id.v[k]])
    /\ (WrongKind /\ out.stage = "decoded") =>
          out.err = InvalidIDError /\ ErrorsIs(out.err, ErrInvalidID)
    /\ (arg.to = "decode" /\ JSONKind(arg.data) = "null"
          /\ out.stage = "decoded") =>
          out.err = ErrEmptyRequestID

\* A string id with a quote and a backslash has been serialized and
\* decoded.
C24_Witness ==
    /\ Decoded
    /\ arg.id = NewID("string", <<DQ, BS>>)
    /\ out.err = NoErr /\ out.id = arg.id

\* A response has been validated by either version of the validation.
ResponseValidated ==
    arg.to \in {"Validate", "validate"} /\ out.stage = "validated"

HasResult(r) == r.Result # Nil

HasError(r) == r.Error # NilError

\* An error object as the validation that was applied requires it: with a
\* message, and for Validate of response.go with a code other than 0.
WellFormedError(e, fn) ==
    e.Message # "" /\ (fn = "Validate" => e.Code # 0)

Blank(method) == \A k \in 1..Len(method) : method[k] \in Whitespace

\* A method name that begins with "rpc.".
Reserved(method) ==
    /\ Len(method) >= 4
    /\ method[1] = "r" /\ method[2] = "p" /\ method[3] = "c"
    /\ method[4] = "."

\* The first check of C26 that the request r fails.
FirstRequestFailure(r) ==
    CASE r.JSONRPC # "2.0" -> "invalid JSON-RPC version"
      [] r.JSONRPC = "2.0" /\ Blank(r.Method) ->
            "method name cannot be empty or whitespace"
      [] r.JSONRPC = "2.0" /\ ~Blank(r.Method) /\ IDIsEmpty(r.ID) ->
            "id must not be empty"
      [] r.JSONRPC = "2.0" /\ ~Blank(r.Method) /\ ~IDIsEmpty(r.ID)
            /\ Reserved(r.Method) ->
            "method names starting with 'rpc.' are reserved"
      [] OTHER -> ""

\* C26: request validation rejects with the first failing check in the
\* order: version other than "2.0", blank method, empty id, method that
\* begins with "rpc.", and accepts every request that passes the four.
C26_RequestValidationOrder ==
    (arg.to = "Request.Validate" /\ out.stage = "validated") =>
        IF FirstRequestFailure(arg.r) = "" THEN out.err = NoError
        ELSE out.err = ValidationError(FirstRequestFailure(arg.r))

\* A request with a reserved method name and an empty id has been rejected
\* for its id.
C26_Witness ==
    /\ arg.to = "Request.Validate" /\ out.stage = "validated"
    /\ arg.r.JSONRPC = "2.0" /\ Reserved(arg.r.Method)
    /\ IDIsEmpty(arg.r.ID)
    /\ out.err = ValidationError("id must not be empty")

\* The StartRequest that registers i has scheduled the timers and has not
\* yet released m.mu.
StartInProgress(i) == ret.id = i /\ ret.op \in {"arming", "inserted"}

\* C29: a callback invocation for an id begins only when the StartRequest
\* that registered the id has inserted the state into the active table
\* and has released the lock; until then a handler of the id whose timer
\* has fired has not yet removed the state.
C29_StartBeforeCallback ==
    [][\A i \in Ids :
          /\ invoked'[i] # invoked[i] =>
                started[i] = 1 /\ ~StartInProgress(i)
          /\ StartInProgress(i) =>
                \A t \in TimeoutTypes :
                    handler[i][t].pc \in {"idle", "check", "copy", "done"}]_vars

\* The timer has fired and its handler waits for the lock, while the
\* StartRequest that scheduled it has inserted the state and still holds
\* the lock.
C29_Witness ==
    \E i \in Ids, t \in TimeoutTypes :
        /\ StartInProgress(i) /\ ret.op = "inserted" /\ i \in requests
        /\ handler[i][t].pc = "copy"

\* No timer handler is between its start and its end.
NoDispatchInFlight ==
    \A i \in Ids, t \in TimeoutTypes : handler[i][t].pc \in {"idle", "done"}

\* C27: the sweep of StopAll decrements the pending-callbacks counter once
\* for each state it removes, so that with the table swept and no
\* dispatch in flight the counter is zero, and the counter is zero when
\* StopAll(true) returns.
C27_SweepBalancesCounter ==
    [][/\ (stopAll.pc = "sweep" /\ stopAll'.pc = "wait") =>
            wg' = wg - Cardinality(requests)
       /\ (stopAll'.pc = "wait" /\ requests' = {} /\ NoDispatchInFlight') =>
            wg' = 0
       /\ (stopAll.pc = "wait" /\ stopAll.wait /\ stopAll'.pc = "idle") =>
            wg' = 0]_vars

\* The step is a call of cleanupRequest(i): by CompleteRequest(i), or by a
\* handler of i that goes on to invoke the callback.
CleanupStep(i) ==
    \/ CompleteStep /\ ret'.id = i
    \/ \E t \in TimeoutTypes :
          handler[i][t].pc = "cleanup" /\ handler'[i][t].pc = "invoke"

\* C28: the pending-callbacks counter goes up by one exactly in the steps
\* in which a StartRequest succeeds, goes down by one only in a step of
\* cleanupRequest that finds a registered state and removes it, which
\* happens at most once for a registration, and is never negative.
C28_CounterNeverNegative ==
    [][/\ wg' >= 0
       /\ (\E i \in Ids : started'[i] # started[i]) <=> wg' = wg + 1
       /\ wg' # wg =>
            \/ wg' = wg + 1
            \/ /\ wg' = wg - 1
               /\ \E i \in requests :
                    requests' = requests \ {i} /\ CleanupStep(i)]_vars

\* Both handlers of a request have run cleanupRequest for the one
\* registration, one of them found the state; the counter is back to zero.
C28_Witness ==
    \E i \in Ids :
        /\ started[i] = 1 /\ wg = 0
        /\ \A t \in TimeoutTypes : handler[i][t].pc = "done"
        /\ Len(invoked[i]) = 1

\* A step of the handler (i, t) before it has called the callback.
HandlerStep(i, t) ==
    /\ handler[i][t].pc \in {"check", "copy", "cleanup"}
    /\ handler'[i][t] # handler[i][t]

\* The step leaves the active table, usedIDs, the stored callbacks and the
\* pending counter as they are and begins no callback invocation.
NoMutation ==
    /\ UNCHANGED <<requests, usedIDs, wg, invoked>>
    /\ \A j \in Ids : state'[j].onTimeout = state[j].onTimeout

\* C30: a timer handler that starts when the cancellation token is
\* cancelled ends at its first step, and a handler whose request is no
\* longer in the active table ends without reaching the callback; either
\* one leaves the active table, usedIDs, the stored callbacks and the
\* pending counter unchanged and invokes no callback.
C30_LateHandlerInert ==
    [][\A i \in Ids, t \in TimeoutTypes :
          /\ (HandlerStep(i, t) /\ handler[i][t].pc = "check" /\ ctxDone) =>
                handler'[i][t].pc = "done" /\ NoMutation
          /\ (HandlerStep(i, t) /\ i \notin requests) =>
                handler'[i][t].pc \in {"copy", "cleanup", "done"}
                /\ NoMutation]_vars

\* Both handlers of a registered request have run and ended without a
\* callback, the token cancelled and the request out of the table.
C30_Witness ==
    \E i \in Ids :
        /\ ctxDone /\ i \notin requests /\ started[i] = 1
        /\ Len(invoked[i]) = 0
        /\ \A t \in TimeoutTypes : handler[i][t].pc = "done"

\* The runtime holds a timer for i that has neither fired nor been stopped.
HasLiveTimer(i) == \E t \in TimeoutTypes : state[i].live[t] > 0

\* A timer of i has fired and its handler has not yet passed cleanupRequest.
HasPendingHandler(i) ==
    \E t \in TimeoutTypes : handler[i][t].pc \in {"check", "copy", "cleanup"}

\* A timer of i has fired and its handler has returned at the check of the
\* cancellation token.
HasCancelledHandler(i) ==
    \E t \in TimeoutTypes :
        TimerOf(i, t).st = "fired" /\ handler[i][t].pc = "done" /\ ctxDone

\* Every live timer is the one its record points to: at most one soft and
\* one maximum timer per record, and none that the record has let go.
LiveTimersOwned ==
    \A i \in Ids, t \in TimeoutTypes :
        state[i].live[t] = IF TimerOf(i, t).st = "armed" THEN 1 ELSE 0

ResetStep(i) ==
    /\ ret'.op = "ResetTimeout" /\ ret'.id = i
    /\ handler' = handler /\ stopAll' = stopAll /\ now' = now

\* C32: ResetTimeout on an active request whose soft timer has fired,
\* the handler not yet having removed the state, returns success and
\* changes nothing: no timer is scheduled and lastActivity stays; the
\* handler of the fired timer, when it finds the state, removes the
\* request, and the request gets at most one callback.
C32_ResetAfterSoftFire ==
    [][\A i \in Ids :
          /\ (ResetStep(i) /\ i \in requests
                /\ state[i].softTimer.st = "fired"
                /\ handler[i][SoftTimeout].pc \in {"check", "copy", "cleanup"}) =>
                /\ ret'.err = NoErr
                /\ UNCHANGED <<state, requests, usedIDs, wg, invoked>>
          /\ (handler[i][SoftTimeout].pc = "cleanup"
                /\ handler'[i][SoftTimeout].pc # "cleanup") =>
                i \notin requests'
          /\ Len(invoked'[i]) <= 1]_vars

\* ResetTimeout has returned success at an instant later than the last
\* activity, the soft timer fired and its handler pending.
C32_Witness ==
    \E i \in Ids :
        /\ ret.op = "ResetTimeout" /\ ret.id = i /\ ret.err = NoErr
        /\ i \in requests /\ state[i].softTimer.st = "fired"
        /\ state[i].maximumTimer.st = "armed"
        /\ handler[i][SoftTimeout].pc = "check"
        /\ state[i].lastActivity < now

\* C33: a successful UpdateCallback(id, cb) stores cb and refreshes
\* lastActivity of id, and changes nothing else: the timers of id and the
\* durations are as before, the state of every other request is as
\* before, and so are the active table, usedIDs and the pending counter.
C33_UpdateCallbackFrame ==
    [][(ret'.op = "UpdateCallback" /\ ret'.err = NoErr /\ now' = now) =>
          /\ state'[ret'.id] =
                [state[ret'.id] EXCEPT !.onTimeout = ret'.cb,
                                       !.lastActivity = now]
          /\ \A j \in Ids \ {ret'.id} : state'[j] = state[j]
          /\ UNCHANGED <<requests, usedIDs, wg>>]_vars

\* UpdateCallback has stored a callback for one of two active requests,
\* later than the start of both.
C33_Witness ==
    \E i \in Ids, j \in Ids :
        /\ i # j /\ {i, j} \subseteq requests
        /\ ret.op = "UpdateCallback" /\ ret.id = i /\ ret.err = NoErr
        /\ state[i].onTimeout = ret.cb /\ state[j].onTimeout # ret.cb
        /\ state[i].lastActivity = now /\ state[j].lastActivity < now
        /\ state[i].softTimer.at < now + state[i].softTimeout

\* Request i was started with equal timeouts and no ResetTimeout has moved
\* its soft timer.
EqualTimeouts(i) ==
    /\ started[i] > 0
    /\ state[i].softTimeout = state[i].maximumTimeout
    /\ state[i].lastActivity = startedAt[i]

C35_FailedStartFrame ==
    [][(ret'.op = "StartRequest" /\ ret'.err # NoErr) =>
          /\ UNCHANGED <<requests, state, wg>>
          /\ ManagerLen' = ManagerLen
          /\ ActiveIDs' = ActiveIDs]_vars

\* A StartRequest with a fresh id has failed on its timeouts, beside an
\* active request: the id is used and not active.
C35_Witness ==
    /\ ret.op = "StartRequest"
    /\ ret.err = ErrSoftTimeoutExceedsMaximum
    /\ ~ret.used
    /\ ret.id \in usedIDs \ requests
    /\ requests # {} /\ wg = Cardinality(requests)

\* C36: every request that StartRequest accepted eventually leaves the
\* active table, whenever it was started: its timers expire and a
\* handler removes it, unless a caller does so before.
C36_AcceptedRequestLeaves ==
    \A i \in FollowedIds : (i \in requests) ~> (i \notin requests)

\* The token is cancelled and StopAll has never been called: the parent
\* context was cancelled.
ParentCancelled == ctxDone /\ stopAll.pc = "idle" /\ ~stopReturned

C38_ActiveIDsConsistent ==
    /\ requests \subseteq usedIDs
    /\ Len(ActiveIDsSlice) = ManagerLen
    /\ \A k \in 1..Len(ActiveIDsSlice), l \in 1..Len(ActiveIDsSlice) :
          ActiveIDsSlice[k] = ActiveIDsSlice[l] => k = l
    /\ {ActiveIDsSlice[k] : k \in 1..Len(ActiveIDsSlice)} = requests

\* Two requests are active after a CompleteRequest that removed nothing.
C38_Witness ==
    /\ ManagerLen >= 2 /\ Len(ActiveIDsSlice) = ManagerLen
    /\ ActiveIDsSlice[1] # ActiveIDsSlice[2]
    /\ requests \subseteq usedIDs
    /\ ret.op = "CompleteRequest"

\* The step schedules the timer tm' in place of tm.
Scheduled(tm) == tm'.st = "armed" /\ tm' # tm

\* C39: a timer is scheduled for the instant of its scheduling plus its
\* duration: the soft timer by StartRequest and by a ResetTimeout that
\* takes effect, the maximum timer by StartRequest only.  A timer function
\* is started no earlier than that instant, and a callback is invoked, for
\* the id of its request, with SoftTimeout or MaximumTimeout only by the
\* handler of the soft or maximum timer that has fired, no earlier than
\* the deadline of that timer.
C39_CallbackNotBeforeDeadline ==
    [][\A i \in Ids :
          /\ Scheduled(state[i].softTimer) =>
                /\ state'[i].softTimer.at = now + state'[i].softTimeout
                /\ ret'.op \in {"StartRequest", "ResetTimeout"}
                /\ ret'.id = i /\ ret'.err = NoErr
          /\ Scheduled(state[i].maximumTimer) =>
                /\ state'[i].maximumTimer.at = now + state'[i].maximumTimeout
                /\ ret'.op = "StartRequest" /\ ret'.id = i /\ ret'.err = NoErr
                /\ startedAt'[i] = now
          /\ \A t \in TimeoutTypes :
                /\ (TimerOf(i, t).st = "armed" /\ handler'[i][t].pc = "check") =>
                      now >= TimerOf(i, t).at
                /\ (handler[i][t].pc = "cleanup" /\ handler'[i][t].pc = "invoke") =>
                      /\ TimerOf(i, t).st = "fired" /\ now >= TimerOf(i, t).at
                      /\ t = MaximumTimeout =>
                            now >= startedAt[i] + state[i].maximumTimeout
          /\ invoked'[i] # invoked[i] =>
                LET e == invoked'[i][Len(invoked'[i])]
                IN  /\ handler[i][e.t].pc = "invoke" /\ e.at = now
                    /\ e.cb # NilCb /\ started[i] = 1
                    /\ now >= startedAt[i] + state[i].softTimeout]_vars

\* After a ResetTimeout that took effect, the callback was invoked with
\* SoftTimeout later than softTimeout after the start.
C39_Witness ==
    \E i \in Ids :
        /\ Len(invoked[i]) = 1 /\ invoked[i][1].t = SoftTimeout
        /\ invoked[i][1].at > startedAt[i] + state[i].softTimeout
        /\ invoked[i][1].at <= startedAt[i] + state[i].maximumTimeout
        /\ invoked[i][1].cb = "cb2"

\* C40: when UnmarshalJSON of a response or request envelope returns an
\* error, the target holds the value it held before the call.
C40_DecodeAllOrNothing ==
    (out.stage = "unmarshalled" /\ out.err # NoError) => out.r = arg.r

====
